---- MODULE Spec2Model ----
(***************************************************************************)
(* A model of wdcloader: the host side of the WDC 65xxx board loader.      *)
(* The serial link is modelled by the trace of calls made on it (log),     *)
(* the board by the bytes it hands back to each ser.read().  The session   *)
(* is frontend.cli(); the board operations are operators that thread the   *)
(* link trace, translated from board_utilities.py and loader_utilities.py. *)
(* Spec is the session; ApiSpec calls the operations and codecs directly;  *)
(* LinkSpec runs the session against a board that is a process of its own; *)
(* FairSpec is the session with every enabled step taken in the end.       *)
(***************************************************************************)
EXTENDS Integers, Sequences, FiniteSets, TLC

VARIABLES
    pc,          \* position of cli() in its body
    args,        \* the parsed command line (argparse namespace)
    ser,         \* ser_port: "none" (None), "open", "closed"
    io,          \* [log: calls made on the serial link, calls: calls of read_memory/write_memory]
                 \* (in LinkSpec also the bytes in flight and the board's position)
    info_data,   \* the bytes read_info_data returned
    board_type,  \* the detected Board_Type value, NoBoard before detection
    ndetect,     \* number of detect_board calls made
    file,        \* the input file a loader holds: [name, pos, open]
    address,     \* the loader's running address
    total,       \* the loader's running total
    data,        \* the bytes the last read_memory returned to cli()
    outfiles,    \* files written by save_records/save_binary: name -> content
    printed,     \* the totals the loaders reported ("Loaded N bytes"), in order
    err,         \* the exception propagating to cli()'s handler, Ok when none
    ret          \* cli()'s return value, NoRet before it returns

vars == <<pc, args, ser, io, info_data, board_type, ndetect, file, address,
          total, data, outfiles, printed, err, ret>>

-----------------------------------------------------------------------------
(* Bounds of the model *)

\* number of bytes by which the oversized inputs exceed a 16-bit length
Excess == 2
\* length of the raw binary file beyond two full 64-byte chunks
RawTail == 2
\* the most bytes the board delivers to one ser.read() before its timeout
MaxReply == 40

-----------------------------------------------------------------------------
(* command_codes.py *)

WRITE_MEM == 2
READ_MEM == 3
GET_INFO == 4
EXEC_DEBUG == 5
EXEC_MEM == 6

(* board_types.py: the enumeration's values *)
W65C02SXB == 0
W65C816SXB == 1
MyMENSCH_RevA == 2
MyMENSCH_RevB == 3
MyMENSCH_RevC == 4
UNKNOWN == 100

\* Board_Type(value): the enumeration's lookup by value, ValueError otherwise
Board_Type_Values == {W65C02SXB, W65C816SXB, MyMENSCH_RevA, MyMENSCH_RevB,
                      MyMENSCH_RevC, UNKNOWN}

_STATE_ADDRESS == 32256
_STATE_SIZE == 16

-----------------------------------------------------------------------------
(* Exceptions, as the value of err *)

Ok == "ok"
NoResponse == "RuntimeError: No response from SXB"
UnknownBoard == "RuntimeError: Unknown board detected"
InfoLength == "ValueError: info data block length"
ExecUnknown == "ValueError: Cannot execute memory on an unknown board"
StateUnsupported == "ValueError: Cannot read state on board type"
BadFormat == "ValueError: The file is not in WDC's format"
BadValue == "ValueError"
Overflow == "OverflowError"
NoFile == "FileNotFoundError"
SerialError == "SerialException"

\* values of variables not assigned yet
NoBoard == 0 - 1
NoRet == 1 - 1
NoArg == <<>>

-----------------------------------------------------------------------------
(* Python integers and bytes *)

Pow2(n) == 2 ^ n

\* x & (2^w - 1) on Python's unbounded two's-complement integers
Mask(x, w) == x % Pow2(w)

\* x >> n
Shr(x, n) == x \div Pow2(n)

Min(a, b) == IF a < b THEN a ELSE b

\* s[:n] for n >= 0
Take(s, n) == SubSeq(s, 1, Min(n, Len(s)))

\* s[a:b] for a, b >= 0 (0-based, end exclusive)
Slice(s, a, b) == SubSeq(s, a + 1, Min(b, Len(s)))

\* int.to_bytes(length=n, byteorder='little', signed=False) raises
\* OverflowError unless 0 <= v < 256^n
CanEncode(v, n) == v >= 0 /\ v < Pow2(8 * n)

to_bytes(v, n) == [i \in 1..n |-> Shr(v, 8 * (i - 1)) % 256]

\* the integer a little-endian byte string stands for
RECURSIVE from_bytes(_)
from_bytes(b) ==
    IF b = <<>> THEN 0 ELSE b[1] + 256 * from_bytes(Tail(b))

-----------------------------------------------------------------------------
(* The serial link: the trace of pyserial calls *)

Wr(tag, val, bytes) == [op |-> "write", tag |-> tag, val |-> val, bytes |-> bytes]
Rd(tag, n, bytes) == [op |-> "read", tag |-> tag, val |-> n, bytes |-> bytes]
Dtr(level) == [op |-> "setDTR", tag |-> "reset", val |-> level, bytes |-> <<>>]
Terminal == [op |-> "terminal", tag |-> "miniterm", val |-> 0, bytes |-> <<>>]

Logged(s, e) == [s EXCEPT !.log = Append(@, e)]
Called(s, fn, a, n, d) ==
    [s EXCEPT !.calls = Append(@, [fn |-> fn, address |-> a, size |-> n, data |-> d])]

\* ser.read(n): the first n of the bytes the board delivers before the timeout
ser_read(avail, n) == Take(avail, n)

-----------------------------------------------------------------------------
(* board_utilities.py: BoardUtilities *)

\* faulty variant: the reset is left out
reset_board_skipped(s) == [io |-> s, err |-> Ok]

reset_board(s) ==
    [io |-> Logged(Logged(Logged(s, Dtr(1)), Dtr(0)), Dtr(1)), err |-> Ok]

\* faulty variant: any acknowledgement byte is accepted (if not data)
send_command_anybyte(s, cmd, ack) ==
    LET s1 == Logged(s, Wr("sync", 0, <<85, 170>>))
        got == ser_read(ack, 1)
        s2 == Logged(s1, Rd("ack", 1, got))
    IN  IF got = <<>>
        THEN [io |-> s2, err |-> NoResponse]
        ELSE [io |-> Logged(s2, Wr("cmd", cmd, <<cmd>>)), err |-> Ok]

\* faulty variant: a failed handshake is tried a second time
send_command_retry(s, cmd, ack) ==
    LET s1 == Logged(s, Wr("sync", 0, <<85, 170>>))
        got == ser_read(ack, 1)
        s2 == Logged(s1, Rd("ack", 1, got))
        s3 == Logged(Logged(s2, Wr("sync", 0, <<85, 170>>)), Rd("ack", 1, got))
    IN  IF got = <<>> \/ got[1] # 204
        THEN [io |-> s3, err |-> NoResponse]
        ELSE [io |-> Logged(s2, Wr("cmd", cmd, <<cmd>>)), err |-> Ok]

send_command(s, cmd, ack) ==
    LET s1 == Logged(s, Wr("sync", 0, <<85, 170>>))
        got == ser_read(ack, 1)
        s2 == Logged(s1, Rd("ack", 1, got))
    IN  IF got = <<>> \/ got[1] # 204
        THEN [io |-> s2, err |-> NoResponse]
        ELSE [io |-> Logged(s2, Wr("cmd", cmd, <<cmd>>)), err |-> Ok]

\* faulty variant: the "MYM" marker is not looked at
detect_board_nomarker(info) ==
    IF Len(info) # 29
    THEN [err |-> InfoLength, type |-> NoBoard]
    ELSE
      CASE info[4] = 0 ->
             [err |-> Ok, type |-> IF info[5] = 88 THEN W65C02SXB ELSE UNKNOWN]
        [] info[4] = 1 ->
             [err |-> Ok, type |-> IF info[5] = 88 THEN W65C816SXB ELSE UNKNOWN]
        [] info[4] \in {65, 66, 67} ->
             [err |-> Ok, type |-> MyMENSCH_RevA + (info[4] - 65)]
        [] OTHER -> [err |-> Ok, type |-> UNKNOWN]

\* faulty variant: the info block is expected to be 28 bytes long
detect_board_len28(info) ==
    IF Len(info) # 28
    THEN [err |-> InfoLength, type |-> NoBoard]
    ELSE
      CASE info[4] = 0 ->
             [err |-> Ok, type |-> IF info[5] = 88 THEN W65C02SXB ELSE UNKNOWN]
        [] info[4] = 1 ->
             [err |-> Ok, type |-> IF info[5] = 88 THEN W65C816SXB ELSE UNKNOWN]
        [] info[4] \in {65, 66, 67} ->
             IF info[1] = 77 /\ info[2] = 89 /\ info[3] = 77
             THEN [err |-> Ok, type |-> MyMENSCH_RevA + (info[4] - 65)]
             ELSE [err |-> Ok, type |-> UNKNOWN]
        [] OTHER -> [err |-> Ok, type |-> UNKNOWN]


\* match info_data[3] (0-based offsets; sequences are 1-based)
detect_board(info) ==
    IF Len(info) # 29
    THEN [err |-> InfoLength, type |-> NoBoard]
    ELSE
      CASE info[4] = 0 ->
             [err |-> Ok, type |-> IF info[5] = 88 THEN W65C02SXB ELSE UNKNOWN]
        [] info[4] = 1 ->
             [err |-> Ok, type |-> IF info[5] = 88 THEN W65C816SXB ELSE UNKNOWN]
        [] info[4] \in {65, 66, 67} ->
             IF info[1] = 77 /\ info[2] = 89 /\ info[3] = 77
             THEN LET v == MyMENSCH_RevA + (info[4] - 65)
                  IN  IF v \in Board_Type_Values
                      THEN [err |-> Ok, type |-> v]
                      ELSE [err |-> BadValue, type |-> NoBoard]
             ELSE [err |-> Ok, type |-> UNKNOWN]
        [] OTHER -> [err |-> Ok, type |-> UNKNOWN]

-----------------------------------------------------------------------------
(* board_utilities.py: BoardCommands *)

read_info_data(s, ack, reply) ==
    LET c == send_command(s, GET_INFO, ack)
        got == ser_read(reply, 29)
    IN  IF c.err # Ok
        THEN [io |-> c.io, err |-> c.err, data |-> <<>>]
        ELSE [io |-> Logged(c.io, Rd("info", 29, got)), err |-> Ok, data |-> got]

\* faulty variant: the address and the size are not masked
read_memory_nomask(s, addr, size, ack, reply) ==
    LET s0 == Called(s, "read_memory", addr, size, <<>>)
        c == send_command(s0, READ_MEM, ack)
        got == ser_read(reply, size)
    IN  IF c.err # Ok
        THEN [io |-> c.io, err |-> c.err, data |-> <<>>]
        ELSE IF ~CanEncode(addr, 3)
        THEN [io |-> c.io, err |-> Overflow, data |-> <<>>]
        ELSE IF ~CanEncode(size, 2)
        THEN [io |-> Logged(c.io, Wr("addr", addr, to_bytes(addr, 3))),
              err |-> Overflow, data |-> <<>>]
        ELSE [io |-> Logged(Logged(Logged(c.io,
                         Wr("addr", addr, to_bytes(addr, 3))),
                         Wr("size", size, to_bytes(size, 2))),
                         Rd("data", size, got)),
              err |-> Ok, data |-> got]

read_memory(s, addr, size, ack, reply) ==
    LET a == Mask(addr, 24)
        n == Mask(size, 16)
        s0 == Called(s, "read_memory", addr, size, <<>>)
        c == send_command(s0, READ_MEM, ack)
        got == ser_read(reply, n)
    IN  IF c.err # Ok
        THEN [io |-> c.io, err |-> c.err, data |-> <<>>]
        ELSE IF ~CanEncode(a, 3)
        THEN [io |-> c.io, err |-> Overflow, data |-> <<>>]
        ELSE IF ~CanEncode(n, 2)
        THEN [io |-> Logged(c.io, Wr("addr", a, to_bytes(a, 3))),
              err |-> Overflow, data |-> <<>>]
        ELSE [io |-> Logged(Logged(Logged(c.io,
                         Wr("addr", a, to_bytes(a, 3))),
                         Wr("size", n, to_bytes(n, 2))),
                         Rd("data", n, got)),
              err |-> Ok, data |-> got]

\* what write_memory does given the wire address a and the payload
write_frame(s, addr, d, a, payload, ack) ==
    LET s0 == Called(s, "write_memory", addr, Len(d), d)
        c == send_command(s0, WRITE_MEM, ack)
    IN  IF c.err # Ok
        THEN [io |-> c.io, err |-> c.err]
        ELSE IF ~CanEncode(a, 3)
        THEN [io |-> c.io, err |-> Overflow]
        ELSE IF ~CanEncode(Len(payload), 2)
        THEN [io |-> Logged(c.io, Wr("addr", a, to_bytes(a, 3))), err |-> Overflow]
        ELSE [io |-> Logged(Logged(Logged(c.io,
                         Wr("addr", a, to_bytes(a, 3))),
                         Wr("len", Len(payload), to_bytes(Len(payload), 2))),
                         Wr("payload", Len(payload), payload)),
              err |-> Ok]

\* faulty variant: a status byte is read back after the payload
write_memory_readback(s, addr, d, ack) ==
    LET w == write_frame(s, addr, d, Mask(addr, 24), Take(d, Mask(Len(d), 16)), ack)
    IN  IF w.err # Ok THEN w
        ELSE [io |-> Logged(w.io, Rd("status", 1, <<>>)), err |-> Ok]

\* faulty variant: the data is not truncated
write_memory_notrunc(s, addr, d, ack) ==
    write_frame(s, addr, d, Mask(addr, 24), d, ack)

\* faulty variant: the address is not masked
write_memory_nomask(s, addr, d, ack) ==
    write_frame(s, addr, d, addr, Take(d, Mask(Len(d), 16)), ack)

write_memory(s, addr, d, ack) ==
    LET a == Mask(addr, 24)
        payload == Take(d, Mask(Len(d), 16))
    IN  write_frame(s, addr, d, a, payload, ack)

\* faulty variant: the stack pointer bytes are 0xFF, 0x00
state_block_sp0(addr) ==
    LET a == Mask(addr, 16)
        addr_b == to_bytes(a, 2)
    IN  [i \in 1.._STATE_SIZE |->
            CASE i = 7 -> addr_b[1]
              [] i = 8 -> addr_b[2]
              [] i = 11 -> 255
              [] i = 13 -> 52
              [] i = 14 -> 1
              [] OTHER -> 0]

\* the 16-byte CPU state block execute_memory stages on the SXB boards
state_block(addr) ==
    LET a == Mask(addr, 16)
        addr_b == to_bytes(a, 2)
    IN  [i \in 1.._STATE_SIZE |->
            CASE i = 7 -> addr_b[1]
              [] i = 8 -> addr_b[2]
              [] i = 11 -> 255
              [] i = 12 -> 1
              [] i = 13 -> 52
              [] i = 14 -> 1
              [] OTHER -> 0]

\* faulty variant: EXEC_DEBUG is sent on the handshake of the state block's write
execute_memory_reuse(s, addr, b_type, ack1, ack2) ==
    CASE b_type \in {W65C02SXB, W65C816SXB} ->
           LET w == write_memory(s, _STATE_ADDRESS, state_block(addr), ack1)
           IN  IF w.err # Ok THEN w
               ELSE [io |-> Logged(w.io, Wr("cmd", EXEC_DEBUG, <<EXEC_DEBUG>>)),
                     err |-> Ok]
      [] b_type \in {MyMENSCH_RevA, MyMENSCH_RevB, MyMENSCH_RevC} ->
           LET a == Mask(addr, 24)
               c == send_command(s, EXEC_MEM, ack1)
           IN  IF c.err # Ok THEN c
               ELSE [io |-> Logged(c.io, Wr("addr", a, to_bytes(a, 3))), err |-> Ok]
      [] OTHER -> [io |-> s, err |-> ExecUnknown]

\* faulty variant: on the MENSCH boards the address is masked to 16 bits
execute_memory_mask16(s, addr, b_type, ack1, ack2) ==
    CASE b_type \in {W65C02SXB, W65C816SXB} ->
           LET w == write_memory(s, _STATE_ADDRESS, state_block(addr), ack1)
           IN  IF w.err # Ok THEN w
               ELSE send_command(w.io, EXEC_DEBUG, ack2)
      [] b_type \in {MyMENSCH_RevA, MyMENSCH_RevB, MyMENSCH_RevC} ->
           LET a == Mask(addr, 16)
               c == send_command(s, EXEC_MEM, ack1)
           IN  IF c.err # Ok THEN c
               ELSE [io |-> Logged(c.io, Wr("addr", a, to_bytes(a, 3))), err |-> Ok]
      [] OTHER -> [io |-> s, err |-> ExecUnknown]

\* faulty variant: the board type is looked at after the handshake
execute_memory_latecheck(s, addr, b_type, ack1, ack2) ==
    CASE b_type \in {W65C02SXB, W65C816SXB} ->
           LET w == write_memory(s, _STATE_ADDRESS, state_block(addr), ack1)
           IN  IF w.err # Ok THEN w
               ELSE send_command(w.io, EXEC_DEBUG, ack2)
      [] OTHER ->
           LET a == Mask(addr, 24)
               c == send_command(s, EXEC_MEM, ack1)
           IN  IF c.err # Ok THEN c
               ELSE IF b_type = UNKNOWN THEN [io |-> c.io, err |-> ExecUnknown]
               ELSE [io |-> Logged(c.io, Wr("addr", a, to_bytes(a, 3))), err |-> Ok]


\* faulty variant: when the handshake of EXEC_DEBUG fails the state block is
\* written once more before the error is raised
execute_memory_restore(s, addr, b_type, ack1, ack2) ==
    CASE b_type \in {W65C02SXB, W65C816SXB} ->
           LET w == write_memory(s, _STATE_ADDRESS, state_block(addr), ack1)
           IN  IF w.err # Ok THEN w
               ELSE LET c == send_command(w.io, EXEC_DEBUG, ack2)
                    IN  IF c.err = Ok THEN c
                        ELSE [io |-> write_memory(c.io, _STATE_ADDRESS,
                                                  [i \in 1.._STATE_SIZE |-> 0], ack1).io,
                              err |-> c.err]
      [] b_type \in {MyMENSCH_RevA, MyMENSCH_RevB, MyMENSCH_RevC} ->
           LET a == Mask(addr, 24)
               c == send_command(s, EXEC_MEM, ack1)
           IN  IF c.err # Ok THEN c
               ELSE IF ~CanEncode(a, 3) THEN [io |-> c.io, err |-> Overflow]
               ELSE [io |-> Logged(c.io, Wr("addr", a, to_bytes(a, 3))), err |-> Ok]
      [] OTHER -> [io |-> s, err |-> ExecUnknown]

execute_memory(s, addr, b_type, ack1, ack2) ==
    CASE b_type \in {W65C02SXB, W65C816SXB} ->
           LET w == write_memory(s, _STATE_ADDRESS, state_block(addr), ack1)
           IN  IF w.err # Ok THEN w
               ELSE send_command(w.io, EXEC_DEBUG, ack2)
      [] b_type \in {MyMENSCH_RevA, MyMENSCH_RevB, MyMENSCH_RevC} ->
           LET a == Mask(addr, 24)
               c == send_command(s, EXEC_MEM, ack1)
           IN  IF c.err # Ok THEN c
               ELSE IF ~CanEncode(a, 3) THEN [io |-> c.io, err |-> Overflow]
               ELSE [io |-> Logged(c.io, Wr("addr", a, to_bytes(a, 3))), err |-> Ok]
      [] OTHER -> [io |-> s, err |-> ExecUnknown]

\* faulty variant: the state block is read on every board
read_state_anyboard(s, b_type, ack, reply) ==
    read_memory(s, _STATE_ADDRESS, _STATE_SIZE, ack, reply)


read_state(s, b_type, ack, reply) ==
    IF b_type \in {W65C02SXB, W65C816SXB}
    THEN read_memory(s, _STATE_ADDRESS, _STATE_SIZE, ack, reply)
    ELSE [io |-> s, err |-> StateUnsupported, data |-> <<>>]

-----------------------------------------------------------------------------
(* Text: a str is a sequence of one-character strings *)

LowerHex == <<"0", "1", "2", "3", "4", "5", "6", "7", "8", "9",
              "a", "b", "c", "d", "e", "f">>
UpperHex == <<"0", "1", "2", "3", "4", "5", "6", "7", "8", "9",
              "A", "B", "C", "D", "E", "F">>
Whitespace == {" ", "\n", "\r", "\t"}

IsHex(c) == \E i \in 1..16 : LowerHex[i] = c \/ UpperHex[i] = c
HexValue(c) == (CHOOSE i \in 1..16 : LowerHex[i] = c \/ UpperHex[i] = c) - 1

\* the digits of v >= 0 in base 16, lower case, at least one
RECURSIVE HexDigits(_)
HexDigits(v) ==
    IF v < 16 THEN <<LowerHex[v + 1]>>
    ELSE Append(HexDigits(v \div 16), LowerHex[(v % 16) + 1])

RECURSIVE ZeroPad(_, _)
ZeroPad(str, width) ==
    IF Len(str) >= width THEN str ELSE ZeroPad(<<"0">> \o str, width)

\* '%.<width>x' % v: at least width digits, more when v needs them, '-' first
\* for a negative v
FormatHex(v, width) ==
    IF v < 0 THEN <<"-">> \o ZeroPad(HexDigits(0 - v), width)
    ELSE ZeroPad(HexDigits(v), width)

RECURSIVE StripLeft(_)
StripLeft(str) ==
    IF str # <<>> /\ str[1] \in Whitespace THEN StripLeft(Tail(str)) ELSE str

RECURSIVE StripRight(_)
StripRight(str) ==
    IF str # <<>> /\ str[Len(str)] \in Whitespace
    THEN StripRight(SubSeq(str, 1, Len(str) - 1)) ELSE str

RECURSIVE HexNumber(_)
HexNumber(str) ==
    IF str = <<>> THEN 0
    ELSE 16 * HexNumber(SubSeq(str, 1, Len(str) - 1)) + HexValue(str[Len(str)])

\* int(str, 16) on text made of hex digits, whitespace and other letters (no
\* sign, no 0x prefix, no underscore): surrounding whitespace is stripped, the
\* rest must be one or more hex digits, otherwise ValueError
int16(str) ==
    LET t == StripRight(StripLeft(str))
    IN  IF t # <<>> /\ \A i \in 1..Len(t) : IsHex(t[i])
        THEN [err |-> Ok, val |-> HexNumber(t)]
        ELSE [err |-> BadValue, val |-> 0]

\* bytearray.fromhex(str): whitespace between the bytes is skipped, every byte
\* is two adjacent hex digits, otherwise ValueError
RECURSIVE fromhex(_)
fromhex(str) ==
    LET t == StripLeft(str)
    IN  IF t = <<>> THEN [err |-> Ok, bytes |-> <<>>]
        ELSE IF Len(t) < 2 \/ ~IsHex(t[1]) \/ ~IsHex(t[2])
        THEN [err |-> BadValue, bytes |-> <<>>]
        ELSE LET r == fromhex(SubSeq(t, 3, Len(t)))
             IN  IF r.err # Ok THEN r
                 ELSE [err |-> Ok,
                       bytes |-> <<16 * HexValue(t[1]) + HexValue(t[2])>> \o r.bytes]

\* line.startswith(prefix)
startswith(line, prefix) ==
    Len(line) >= Len(prefix) /\ SubSeq(line, 1, Len(prefix)) = prefix

\* the lines a text file iterates over: each ends with its "\n", the last
\* one may not
RECURSIVE Lines(_)
Lines(text) ==
    IF text = <<>> THEN <<>>
    ELSE IF \E i \in 1..Len(text) : text[i] = "\n"
    THEN LET k == CHOOSE i \in 1..Len(text) :
                    text[i] = "\n" /\ \A j \in 1..(i - 1) : text[j] # "\n"
         IN  <<SubSeq(text, 1, k)>> \o Lines(SubSeq(text, k + 1, Len(text)))
    ELSE <<text>>

-----------------------------------------------------------------------------
(* loader_utilities.py: the file codecs *)

RECURSIVE SumBytes(_)
SumBytes(b) == IF b = <<>> THEN 0 ELSE b[1] + SumBytes(Tail(b))

\* faulty variant: a record whose bytes, checksum included, do not add up to
\* 0xFF modulo 256 is refused
srec_line_checked(line) ==
    LET none == [err |-> Ok, write |-> FALSE, address |-> 0, data |-> <<>>, count |-> 0]
        bad == [none EXCEPT !.err = BadValue]
        rec(n, digits) ==
            LET c == int16(Slice(line, 2, 4))
                a == int16(Slice(line, 4, 4 + digits))
                count == c.val - n
                d == fromhex(Slice(line, 4 + digits, (count * 2) + 4 + digits))
                all == fromhex(Slice(line, 2, Len(line)))
            IN  IF c.err # Ok \/ a.err # Ok \/ d.err # Ok \/ all.err # Ok THEN bad
                ELSE IF SumBytes(all.bytes) % 256 # 255 THEN bad
                ELSE [err |-> Ok, write |-> TRUE, address |-> a.val,
                      data |-> d.bytes, count |-> count]
    IN  IF startswith(line, <<"S", "1">>) THEN rec(3, 4)
        ELSE IF startswith(line, <<"S", "2">>) THEN rec(4, 6)
        ELSE none

\* what one line of an SREC file makes load_records do: the write_memory it
\* issues (write, address, data) and the count it adds to the total
srec_line(line) ==
    LET none == [err |-> Ok, write |-> FALSE, address |-> 0, data |-> <<>>, count |-> 0]
        bad == [none EXCEPT !.err = BadValue]
        rec(n, digits) ==
            LET c == int16(Slice(line, 2, 4))
                a == int16(Slice(line, 4, 4 + digits))
                count == c.val - n
                d == fromhex(Slice(line, 4 + digits, (count * 2) + 4 + digits))
            IN  IF c.err # Ok \/ a.err # Ok \/ d.err # Ok THEN bad
                ELSE [err |-> Ok, write |-> TRUE, address |-> a.val,
                      data |-> d.bytes, count |-> count]
    IN  IF startswith(line, <<"S", "1">>) THEN rec(3, 4)
        ELSE IF startswith(line, <<"S", "2">>) THEN rec(4, 6)
        ELSE none

RECURSIVE HexBytes(_)
HexBytes(b) == IF b = <<>> THEN <<>> ELSE FormatHex(b[1], 2) \o HexBytes(Tail(b))

\* one pass of save_records' loop: the line written for the chunk
srec_chunk(addr, chunk) ==
    LET count == Len(chunk)
        c0 == count + 4
        c1 == Mask(c0 + addr, 8)
        c2 == Mask(c1 + Shr(addr, 8), 8)
        c3 == Mask(c2 + Shr(addr, 16), 8)
        c4 == c3 + SumBytes(chunk)
        check == 255 - Mask(c4, 8)
    IN  <<"S", "2">> \o FormatHex(c0, 2) \o FormatHex(addr, 6)
          \o HexBytes(chunk) \o FormatHex(check, 2) \o <<"\n">>

\* the text save_records(address, data, filename) writes
RECURSIVE save_records(_, _)
save_records(addr, d) ==
    IF Len(d) = 0 THEN <<>>
    ELSE LET count == IF Len(d) > 32 THEN 32 ELSE Len(d)
         IN  srec_chunk(addr, Take(d, count))
               \o save_records(addr + count, SubSeq(d, count + 1, Len(d)))

\* faulty variant: the marker byte is left out
save_binary_nomarker(addr, d) ==
    LET data_len == Len(d)
        header == <<Mask(addr, 8), Mask(Shr(addr, 8), 8), Mask(Shr(addr, 16), 8),
                    Mask(data_len, 8), Mask(Shr(data_len, 8), 8),
                    Mask(Shr(data_len, 16), 8)>>
    IN  header \o d

\* the bytes save_binary(address, data, filename) writes
save_binary(addr, d) ==
    LET data_len == Len(d)
        header == <<90,
                    Mask(addr, 8), Mask(Shr(addr, 8), 8), Mask(Shr(addr, 16), 8),
                    Mask(data_len, 8), Mask(Shr(data_len, 8), 8),
                    Mask(Shr(data_len, 16), 8)>>
    IN  header \o d

\* file.read(n) at position pos of a binary file
file_read(content, pos, n) == Slice(content, pos, pos + n)

-----------------------------------------------------------------------------
(* The environment: the files on disk and the board's replies *)

Pattern(n) == [i \in 1..n |-> (i * 7) % 256]

WdcRecord(addr, size, payload) == to_bytes(addr, 3) \o to_bytes(size, 3) \o payload

SrecProg ==
    <<"S", "0", "0", "3", "0", "0", "0", "0", "F", "C", "\n", "S", "1", "0",
    "5", "7", "E", "0", "0", "A", "9", "F", "F", "D", "8", "\n", "S", "2",
    "0", "6", "0", "0", "8", "0", "0", "0", "0", "1", "0", "2", "7", "6",
    "\n", "S", "9", "0", "3", "0", "0", "0", "0", "F", "C", "\n">>
SrecShort ==
    <<"S", "1", "0", "7", "8", "0", "0", "0", "0", "1", "0", "2", "8", "9",
    "\n">>
SrecNeg ==
    <<"S", "1", "0", "0", "8", "0", "0", "0", "\n", "S", "2", "0", "0", "0",
    "0", "8", "0", "0", "0", "\n">>
SrecBad ==
    <<"S", "1", "0", "5", "8", "0", "0", "0", "Z", "Z", "0", "1", "7", "7",
    "\n">>

\* open(filename): the content of each existing file
FileSystem ==
    [small_wdc |-> <<90>> \o WdcRecord(4096, 2, <<170, 187>>),
     two_wdc |-> <<90>> \o WdcRecord(4096, 2, <<170, 187>>)
                       \o WdcRecord(8192, 3, <<1, 2, 3>>),
     big_wdc |-> <<90>> \o WdcRecord(16777215, 65535 + Excess, Pattern(65535 + Excess))
                       \o WdcRecord(512, 1, <<9>>),
     full_wdc |-> <<90>> \o WdcRecord(256, 65535, Pattern(65535)),
     zero_wdc |-> <<90>> \o WdcRecord(4096, 0, <<>>) \o WdcRecord(8192, 1, <<7>>),
     trunc_wdc |-> <<90>> \o WdcRecord(4096, 1, <<5>>) \o WdcRecord(8192, 4, <<1, 2>>),
     bad_wdc |-> <<0>> \o WdcRecord(4096, 2, <<170, 187>>),
     empty_wdc |-> <<>>,
     prog_bin |-> Pattern(128 + RawTail),
     empty_bin |-> <<>>,
     prog_srec |-> SrecProg,
     short_srec |-> SrecShort,
     neg_srec |-> SrecNeg,
     bad_srec |-> SrecBad]

\* the files written so far under a name, in the order they were written
Written(name) == SelectSeq(outfiles, LAMBDA f : f.name = name)

\* os.path: the file is on disk from the start, or was written by a save
Exists(name) == name \in DOMAIN FileSystem \/ Written(name) # <<>>

\* what open(name) reads: the last content written under the name, otherwise
\* the content on disk
Content(name) ==
    IF Written(name) # <<>> THEN Written(name)[Len(Written(name))].content
    ELSE FileSystem[name]

\* the text files on disk, split into lines and decoded line by line once
TextFiles == {"prog_srec", "short_srec", "neg_srec", "bad_srec"}
DiskLines == [name \in TextFiles |-> Lines(FileSystem[name])]
DiskRecords ==
    [name \in TextFiles |->
        [i \in 1..Len(DiskLines[name]) |-> srec_line(DiskLines[name][i])]]
OnDisk(name) == name \in TextFiles /\ Written(name) = <<>>

\* the info blocks documented in board_utilities.py, with their trailing byte
InfoW65C02 ==
    <<0, 126, 0, 0, 88, 0, 126, 0, 0, 128, 0, 250, 126, 0, 0, 127, 0, 250,
      255, 0, 0, 127, 0, 255, 127, 0, 255, 255, 0>>
InfoW65C816 ==
    <<0, 126, 0, 1, 88, 0, 126, 0, 0, 0, 0, 228, 126, 0, 0, 127, 0, 228,
      255, 0, 0, 127, 0, 255, 127, 0, 255, 255, 0>>
InfoMyMENSCH ==
    <<77, 89, 77, 67, 2, 0, 2, 0, 0, 248, 0, 250, 2, 0, 0, 3, 0, 250,
      255, 0, 0, 127, 0, 255, 127, 0, 144, 127, 0>>

\* what a board may deliver to ser.read(29) after GET_INFO
InfoReplies ==
    {InfoW65C02, InfoW65C816, InfoMyMENSCH,
     [InfoW65C02 EXCEPT ![4] = 2],
     [InfoW65C816 EXCEPT ![5] = 0],
     [InfoMyMENSCH EXCEPT ![2] = 0],
     Take(InfoW65C02, 28),
     <<>>}

\* what a board may deliver to ser.read(1) after the sync bytes
AckReplies == {<<204>>, <<0>>, <<>>}

\* what a board may deliver to ser.read(n) after READ_MEM before the timeout:
\* at most MaxReply bytes; all that was asked for, one byte less, or nothing
DataReplies(n) ==
    LET m == Min(n, MaxReply)
    IN  {Pattern(m), Pattern(IF m > 0 THEN m - 1 ELSE 0), <<>>}

-----------------------------------------------------------------------------
(* The command lines of the session *)

MainNone ==
    [load |-> NoArg, loadbin |-> NoArg, loadraw |-> NoArg, save |-> NoArg,
     savebin |-> NoArg]

\* --load, --loadbin, --loadraw, --save and --savebin exclude each other
MainArgs ==
    {MainNone}
    \cup {[MainNone EXCEPT !.load = <<f>>] :
            f \in {"prog_srec", "short_srec", "neg_srec", "bad_srec", "missing"}}
    \cup {[MainNone EXCEPT !.loadbin = <<f>>] :
            f \in {"small_wdc", "two_wdc", "zero_wdc", "trunc_wdc", "bad_wdc",
                   "empty_wdc"}}
    \cup {[MainNone EXCEPT !.loadraw = <<a, f>>] :
            a \in {16777152, 33562624}, f \in {"prog_bin", "empty_bin"}}
    \cup {[MainNone EXCEPT !.save = <<a, n, "out_srec">>] :
            a \in {32768, 33554431}, n \in {2, 33}}
    \cup {[MainNone EXCEPT !.savebin = <<a, n, "out_wdc">>] :
            a \in {32768, 33554431}, n \in {2, 33}}

ShowArgs == {NoArg, <<33554431, 131071>>, <<32256, 16>>, <<0 - 1, 0 - 3>>}
ExecArgs == {NoArg, <<305419896>>}

\* the command lines that load a file holding a record of 64 KiB or more
BigArgs ==
    {[main |-> [MainNone EXCEPT !.loadbin = <<f>>], show |-> NoArg,
      exec |-> NoArg, term |-> FALSE] : f \in {"big_wdc", "full_wdc"}}

\* the command line that saves into a file that exists
OverArgs ==
    {[main |-> [MainNone EXCEPT !.save = <<32768, 2, "short_srec">>],
      show |-> NoArg, exec |-> NoArg, term |-> FALSE]}

ArgsSet ==
    {[main |-> m, show |-> sh, exec |-> ex, term |-> t] :
        m \in MainArgs, sh \in ShowArgs, ex \in ExecArgs, t \in BOOLEAN}
    \cup BigArgs
    \cup OverArgs

-----------------------------------------------------------------------------
(* frontend.py: cli() *)

ClosedFile == [name |-> "", pos |-> 0, open |-> FALSE]

Init ==
    /\ pc = "open"
    /\ args \in ArgsSet
    /\ ser = "none"
    /\ io = [log |-> <<>>, calls |-> <<>>]
    /\ info_data = <<>>
    /\ board_type = NoBoard
    /\ ndetect = 0
    /\ file = ClosedFile
    /\ address = 0
    /\ total = 0
    /\ data = <<>>
    /\ outfiles = <<>>
    /\ printed = <<>>
    /\ err = Ok
    /\ ret = NoRet

\* an exception leaves the try block for cli()'s handler
Raise(e) == err' = e /\ pc' = "except"

\* ser_port = serial.Serial(...)
OpenPort ==
    /\ pc = "open"
    /\ \E opened \in BOOLEAN :
         IF opened
         THEN ser' = "open" /\ pc' = "reset" /\ err' = err
         ELSE ser' = ser /\ Raise(SerialError)
    /\ UNCHANGED <<args, io, info_data, board_type, ndetect, file, address,
                   total, data, outfiles, printed, ret>>

ResetBoard ==
    /\ pc = "reset"
    /\ io' = reset_board(io).io
    /\ pc' = "info"
    /\ UNCHANGED <<args, ser, info_data, board_type, ndetect, file, address,
                   total, data, outfiles, printed, err, ret>>

ReadInfo ==
    /\ pc = "info"
    /\ \E ack \in AckReplies, reply \in InfoReplies :
         LET r == read_info_data(io, ack, reply)
         IN  /\ io' = r.io
             /\ info_data' = r.data
             /\ IF r.err = Ok THEN pc' = "detect" /\ err' = err ELSE Raise(r.err)
    /\ UNCHANGED <<args, ser, board_type, ndetect, file, address, total, data,
                   outfiles, printed, ret>>

\* faulty variant: an unknown board is not refused
DetectBoardUnchecked ==
    /\ pc = "detect"
    /\ ndetect' = ndetect + 1
    /\ LET d == detect_board(info_data)
       IN  IF d.err # Ok
           THEN board_type' = board_type /\ Raise(d.err)
           ELSE board_type' = d.type /\ pc' = "action" /\ err' = err
    /\ UNCHANGED <<args, ser, io, info_data, file, address, total, data,
                   outfiles, printed, ret>>

\* board_type = detect_board(info_data), and the check for an unknown board
DetectBoard ==
    /\ pc = "detect"
    /\ ndetect' = ndetect + 1
    /\ LET d == detect_board(info_data)
       IN  IF d.err # Ok
           THEN board_type' = board_type /\ Raise(d.err)
           ELSE /\ board_type' = d.type
                /\ IF d.type = UNKNOWN THEN Raise(UnknownBoard)
                   ELSE pc' = "action" /\ err' = err
    /\ UNCHANGED <<args, ser, io, info_data, file, address, total, data,
                   outfiles, printed, ret>>

NoAction ==
    /\ pc = "action"
    /\ args.main = MainNone
    /\ pc' = "show"
    /\ UNCHANGED <<args, ser, io, info_data, board_type, ndetect, file, address,
                   total, data, outfiles, printed, err, ret>>

-----------------------------------------------------------------------------
(* loader_utilities.py: the loaders, one action per pass of their loops *)

\* the loader's loop ends: finally file.close(), then the report
Loaded ==
    /\ file' = [file EXCEPT !.open = FALSE]
    /\ printed' = Append(printed, total)
    /\ pc' = "show"
    /\ err' = err

\* faulty variant: the file is left open when the loader fails
LoadFailedOpen(e) ==
    /\ file' = file
    /\ printed' = printed
    /\ Raise(e)

\* an exception inside the loader's try: finally file.close(), no report
LoadFailed(e) ==
    /\ file' = [file EXCEPT !.open = FALSE]
    /\ printed' = printed
    /\ Raise(e)

\* load_records: file = open(filename, 'r'); total = 0
LoadRecordsOpen ==
    /\ pc = "action"
    /\ args.main.load # NoArg
    /\ LET name == args.main.load[1]
       IN  IF Exists(name)
           THEN /\ file' = [name |-> name, pos |-> 0, open |-> TRUE]
                /\ total' = 0
                /\ pc' = "load_records"
                /\ err' = err
           ELSE /\ UNCHANGED <<file, total>>
                /\ Raise(NoFile)
    /\ UNCHANGED <<args, ser, io, info_data, board_type, ndetect, address,
                   data, outfiles, printed, ret>>

\* load_records: for line in file
LoadRecordsLine ==
    /\ pc = "load_records"
    /\ LET n == IF OnDisk(file.name) THEN Len(DiskLines[file.name])
                ELSE Len(Lines(Content(file.name)))
       IN  IF file.pos >= n
           THEN Loaded /\ UNCHANGED <<io, total>>
           ELSE LET r == IF OnDisk(file.name)
                         THEN DiskRecords[file.name][file.pos + 1]
                         ELSE srec_line(Lines(Content(file.name))[file.pos + 1])
                IN  IF r.err # Ok
                    THEN LoadFailed(r.err) /\ UNCHANGED <<io, total>>
                    ELSE IF ~r.write
                    THEN /\ file' = [file EXCEPT !.pos = @ + 1]
                         /\ total' = total + r.count
                         /\ UNCHANGED <<io, printed, pc, err>>
                    ELSE \E ack \in AckReplies :
                           LET w == write_memory(io, r.address, r.data, ack)
                           IN  /\ io' = w.io
                               /\ IF w.err # Ok
                                  THEN LoadFailed(w.err) /\ total' = total
                                  ELSE /\ file' = [file EXCEPT !.pos = @ + 1]
                                       /\ total' = total + r.count
                                       /\ UNCHANGED <<printed, pc, err>>
    /\ UNCHANGED <<args, ser, info_data, board_type, ndetect, address, data,
                   outfiles, ret>>

\* faulty variant: the marker byte is read and not checked
LoadBinaryOpenUnchecked ==
    /\ pc = "action"
    /\ args.main.loadbin # NoArg
    /\ LET name == args.main.loadbin[1]
       IN  IF ~Exists(name)
           THEN UNCHANGED <<file, total>> /\ Raise(NoFile)
           ELSE LET start == file_read(Content(name), 0, 1)
                IN  /\ total' = 0
                    /\ file' = [name |-> name, pos |-> Len(start), open |-> TRUE]
                    /\ pc' = "load_binary"
                    /\ err' = err
    /\ UNCHANGED <<args, ser, io, info_data, board_type, ndetect, address,
                   data, outfiles, printed, ret>>


\* load_binary: open the file and check its marker byte
LoadBinaryOpen ==
    /\ pc = "action"
    /\ args.main.loadbin # NoArg
    /\ LET name == args.main.loadbin[1]
       IN  IF ~Exists(name)
           THEN UNCHANGED <<file, total>> /\ Raise(NoFile)
           ELSE LET start == file_read(Content(name), 0, 1)
                IN  /\ total' = 0
                    /\ IF start = <<>> \/ start[1] # 90
                       THEN /\ file' = [name |-> name, pos |-> Len(start), open |-> FALSE]
                            /\ Raise(BadFormat)
                       ELSE /\ file' = [name |-> name, pos |-> 1, open |-> TRUE]
                            /\ pc' = "load_binary"
                            /\ err' = err
    /\ UNCHANGED <<args, ser, io, info_data, board_type, ndetect, address,
                   data, outfiles, printed, ret>>

\* load_binary: one pass of while True
LoadBinaryRecord ==
    /\ pc = "load_binary"
    /\ LET content == Content(file.name)
           header == file_read(content, file.pos, 6)
       IN  IF header = <<>> \/ Len(header) # 6
           THEN Loaded /\ UNCHANGED <<io, total>>
           ELSE LET addr == from_bytes(SubSeq(header, 1, 3))
                    size == from_bytes(SubSeq(header, 4, 6))
                    d == file_read(content, file.pos + 6, size)
                IN  IF d = <<>> \/ Len(d) # size
                    THEN Loaded /\ UNCHANGED <<io, total>>
                    ELSE \E ack \in AckReplies :
                           LET w == write_memory(io, addr, d, ack)
                           IN  /\ io' = w.io
                               /\ IF w.err # Ok
                                  THEN LoadFailed(w.err) /\ total' = total
                                  ELSE /\ file' = [file EXCEPT !.pos = @ + 6 + size]
                                       /\ total' = total + size
                                       /\ UNCHANGED <<printed, pc, err>>
    /\ UNCHANGED <<args, ser, info_data, board_type, ndetect, address, data,
                   outfiles, ret>>

\* load_raw_binary: mask the address, open the file
LoadRawOpen ==
    /\ pc = "action"
    /\ args.main.loadraw # NoArg
    /\ address' = Mask(args.main.loadraw[1], 24)
    /\ LET name == args.main.loadraw[2]
       IN  IF Exists(name)
           THEN /\ file' = [name |-> name, pos |-> 0, open |-> TRUE]
                /\ total' = 0
                /\ pc' = "load_raw_binary"
                /\ err' = err
           ELSE /\ UNCHANGED <<file, total>>
                /\ Raise(NoFile)
    /\ UNCHANGED <<args, ser, io, info_data, board_type, ndetect, data,
                   outfiles, printed, ret>>

\* faulty variant: the file position is not advanced after a chunk
LoadRawChunkSamePosition ==
    /\ pc = "load_raw_binary"
    /\ LET d == file_read(Content(file.name), file.pos, 64)
       IN  IF d = <<>>
           THEN Loaded /\ UNCHANGED <<io, total, address>>
           ELSE \E ack \in AckReplies :
                  LET w == write_memory(io, address, d, ack)
                  IN  /\ io' = w.io
                      /\ IF w.err # Ok
                         THEN LoadFailed(w.err) /\ UNCHANGED <<total, address>>
                         ELSE /\ file' = file
                              /\ address' = address + Len(d)
                              /\ total' = total + Len(d)
                              /\ UNCHANGED <<printed, pc, err>>
    /\ UNCHANGED <<args, ser, info_data, board_type, ndetect, data, outfiles, ret>>

\* faulty variant: the target address is not advanced after a chunk
LoadRawChunkSameAddress ==
    /\ pc = "load_raw_binary"
    /\ LET d == file_read(Content(file.name), file.pos, 64)
       IN  IF d = <<>>
           THEN Loaded /\ UNCHANGED <<io, total, address>>
           ELSE \E ack \in AckReplies :
                  LET w == write_memory(io, address, d, ack)
                  IN  /\ io' = w.io
                      /\ IF w.err # Ok
                         THEN LoadFailed(w.err) /\ UNCHANGED <<total, address>>
                         ELSE /\ file' = [file EXCEPT !.pos = @ + Len(d)]
                              /\ address' = address
                              /\ total' = total + Len(d)
                              /\ UNCHANGED <<printed, pc, err>>
    /\ UNCHANGED <<args, ser, info_data, board_type, ndetect, data, outfiles, ret>>

\* load_raw_binary: one pass of while True
LoadRawChunk ==
    /\ pc = "load_raw_binary"
    /\ LET d == file_read(Content(file.name), file.pos, 64)
       IN  IF d = <<>>
           THEN Loaded /\ UNCHANGED <<io, total, address>>
           ELSE \E ack \in AckReplies :
                  LET w == write_memory(io, address, d, ack)
                  IN  /\ io' = w.io
                      /\ IF w.err # Ok
                         THEN LoadFailed(w.err) /\ UNCHANGED <<total, address>>
                         ELSE /\ file' = [file EXCEPT !.pos = @ + Len(d)]
                              /\ address' = address + Len(d)
                              /\ total' = total + Len(d)
                              /\ UNCHANGED <<printed, pc, err>>
    /\ UNCHANGED <<args, ser, info_data, board_type, ndetect, data, outfiles, ret>>

-----------------------------------------------------------------------------
(* frontend.py: cli(), the save, show, exec and terminal actions *)

\* faulty variant: the destination is opened for writing before the read
SaveReadOpensFirst ==
    /\ pc = "action"
    /\ args.main.save # NoArg
    /\ outfiles' = Append(outfiles, [name |-> args.main.save[3], content |-> <<>>])
    /\ \E ack \in AckReplies, reply \in DataReplies(Mask(args.main.save[2], 16)) :
         LET r == read_memory(io, args.main.save[1], args.main.save[2], ack, reply)
         IN  /\ io' = r.io
             /\ data' = r.data
             /\ IF r.err = Ok THEN pc' = "save_records" /\ err' = err ELSE Raise(r.err)
    /\ UNCHANGED <<args, ser, info_data, board_type, ndetect, file, address,
                   total, printed, ret>>

\* --save: data = BoardCommands.read_memory(ser_port, address, data_len)
SaveRead ==
    /\ pc = "action"
    /\ args.main.save # NoArg
    /\ \E ack \in AckReplies, reply \in DataReplies(Mask(args.main.save[2], 16)) :
         LET r == read_memory(io, args.main.save[1], args.main.save[2], ack, reply)
         IN  /\ io' = r.io
             /\ data' = r.data
             /\ IF r.err = Ok THEN pc' = "save_records" /\ err' = err ELSE Raise(r.err)
    /\ UNCHANGED <<args, ser, info_data, board_type, ndetect, file, address,
                   total, outfiles, printed, ret>>

\* --save: LoaderUtilities.save_records(address, data, filename)
SaveRecords ==
    /\ pc = "save_records"
    /\ outfiles' = Append(outfiles,
                          [name |-> args.main.save[3],
                           content |-> save_records(args.main.save[1], data)])
    /\ pc' = "show"
    /\ UNCHANGED <<args, ser, io, info_data, board_type, ndetect, file, address,
                   total, data, printed, err, ret>>

\* --savebin: data = BoardCommands.read_memory(ser_port, address, data_len)
SaveBinRead ==
    /\ pc = "action"
    /\ args.main.savebin # NoArg
    /\ \E ack \in AckReplies, reply \in DataReplies(Mask(args.main.savebin[2], 16)) :
         LET r == read_memory(io, args.main.savebin[1], args.main.savebin[2], ack, reply)
         IN  /\ io' = r.io
             /\ data' = r.data
             /\ IF r.err = Ok THEN pc' = "save_binary" /\ err' = err ELSE Raise(r.err)
    /\ UNCHANGED <<args, ser, info_data, board_type, ndetect, file, address,
                   total, outfiles, printed, ret>>

\* --savebin: LoaderUtilities.save_binary(address, data, filename)
SaveBinary ==
    /\ pc = "save_binary"
    /\ outfiles' = Append(outfiles,
                          [name |-> args.main.savebin[3],
                           content |-> save_binary(args.main.savebin[1], data)])
    /\ pc' = "show"
    /\ UNCHANGED <<args, ser, io, info_data, board_type, ndetect, file, address,
                   total, data, printed, err, ret>>

\* if args.show: read_memory, then print_memory
Show ==
    /\ pc = "show"
    /\ IF args.show = NoArg
       THEN pc' = "exec" /\ UNCHANGED <<io, data, err>>
       ELSE \E ack \in AckReplies, reply \in DataReplies(Mask(args.show[2], 16)) :
              LET r == read_memory(io, args.show[1], args.show[2], ack, reply)
              IN  /\ io' = r.io
                  /\ data' = r.data
                  /\ IF r.err = Ok THEN pc' = "exec" /\ err' = err ELSE Raise(r.err)
    /\ UNCHANGED <<args, ser, info_data, board_type, ndetect, file, address,
                   total, outfiles, printed, ret>>

\* if args.exec: execute_memory; --exec takes one parameter, so the terminal
\* of this branch (len(params) > 1) is opened only for a longer list
Exec ==
    /\ pc = "exec"
    /\ IF args.exec = NoArg
       THEN pc' = "term" /\ UNCHANGED <<io, err>>
       ELSE \E ack1 \in AckReplies, ack2 \in AckReplies :
              LET r == execute_memory(io, args.exec[1], board_type, ack1, ack2)
              IN  IF r.err # Ok
                  THEN io' = r.io /\ Raise(r.err)
                  ELSE /\ io' = IF Len(args.exec) > 1
                                THEN Logged(r.io, Terminal) ELSE r.io
                       /\ pc' = "term"
                       /\ err' = err
    /\ UNCHANGED <<args, ser, info_data, board_type, ndetect, file, address,
                   total, data, outfiles, printed, ret>>

\* if args.term: open_terminal; the try block ends
Term ==
    /\ pc = "term"
    /\ io' = IF args.term THEN Logged(io, Terminal) ELSE io
    /\ pc' = "finally"
    /\ UNCHANGED <<args, ser, info_data, board_type, ndetect, file, address,
                   total, data, outfiles, printed, err, ret>>

\* faulty variant: after the handler the session goes on to the terminal
ExceptThenTerminal ==
    /\ pc = "except"
    /\ ret' = 0 - 1
    /\ pc' = "term"
    /\ UNCHANGED <<args, ser, io, info_data, board_type, ndetect, file, address,
                   total, data, outfiles, printed, err>>

\* except Exception as ex: print, return -1
Except ==
    /\ pc = "except"
    /\ ret' = 0 - 1
    /\ pc' = "finally"
    /\ UNCHANGED <<args, ser, io, info_data, board_type, ndetect, file, address,
                   total, data, outfiles, printed, err>>

\* faulty variant: the port is closed at the end of the try block only
FinallyAfterSuccess ==
    /\ pc = "finally"
    /\ ser' = IF ser = "open" /\ err = Ok THEN "closed" ELSE ser
    /\ pc' = IF ret = NoRet THEN "bye" ELSE "done"
    /\ UNCHANGED <<args, io, info_data, board_type, ndetect, file, address,
                   total, data, outfiles, printed, err, ret>>

\* finally: if ser_port and not ser_port.closed: ser_port.close()
Finally ==
    /\ pc = "finally"
    /\ ser' = IF ser = "open" THEN "closed" ELSE ser
    /\ pc' = IF ret = NoRet THEN "bye" ELSE "done"
    /\ UNCHANGED <<args, io, info_data, board_type, ndetect, file, address,
                   total, data, outfiles, printed, err, ret>>

\* print('Bye bye!'); return 1
Bye ==
    /\ pc = "bye"
    /\ ret' = 1
    /\ pc' = "done"
    /\ UNCHANGED <<args, ser, io, info_data, board_type, ndetect, file, address,
                   total, data, outfiles, printed, err>>

Next ==
    \/ OpenPort
    \/ ResetBoard
    \/ ReadInfo
    \/ DetectBoard
    \/ NoAction
    \/ LoadRecordsOpen
    \/ LoadRecordsLine
    \/ LoadBinaryOpen
    \/ LoadBinaryRecord
    \/ LoadRawOpen
    \/ LoadRawChunk
    \/ SaveRead
    \/ SaveRecords
    \/ SaveBinRead
    \/ SaveBinary
    \/ Show
    \/ Exec
    \/ Term
    \/ Except
    \/ Finally
    \/ Bye

Spec == Init /\ [][Next]_vars

-----------------------------------------------------------------------------
(* The library called directly: one call of a board operation or of a codec, *)
(* on a port that is already open, with arguments cli() never passes         *)

\* the addresses given to execute_memory
ExecAddresses == {0, 65535, 65536, 305419896, 0 - 1}

\* 29-byte info blocks: bytes 0..4 over the values detect_board tells apart
\* and their neighbours, bytes 5..28 from two documented blocks
InfoBlocks ==
    {<<b0, b1, b2, b3, b4>> \o rest :
        b0 \in {77, 0}, b1 \in {89, 0}, b2 \in {77, 0},
        b3 \in {0, 1, 2, 65, 66, 67, 68}, b4 \in {88, 0},
        rest \in {SubSeq(InfoW65C02, 6, 29), SubSeq(InfoMyMENSCH, 6, 29)}}

\* info blocks of another length
InfoOddBlocks == {<<>>, Take(InfoW65C02, 28), InfoW65C02 \o <<0>>}

\* the (address, data) pairs given to save_records
SaveAddresses == {0, 32768, 16777183, 16777215}
SaveData == {Pattern(n) : n \in {0, 1, 32, 33, 65}} \cup {<<1, 2>>}

\* the addresses given to save_binary
BinAddresses == SaveAddresses \cup {33554431}

NoCall ==
    [op |-> "", address |-> 0, b_type |-> NoBoard, info |-> <<>>, data |-> <<>>]

ApiCalls ==
    {[NoCall EXCEPT !.op = "execute_memory", !.address = a, !.b_type = b] :
        a \in ExecAddresses, b \in Board_Type_Values}
    \cup {[NoCall EXCEPT !.op = "read_state", !.b_type = b] :
            b \in Board_Type_Values}
    \cup {[NoCall EXCEPT !.op = "detect_board", !.info = i] :
            i \in InfoBlocks \cup InfoOddBlocks}
    \cup {[NoCall EXCEPT !.op = "save_records", !.address = a, !.data = d] :
            a \in SaveAddresses, d \in SaveData}
    \cup {[NoCall EXCEPT !.op = "save_binary", !.address = a, !.data = d] :
            a \in BinAddresses, d \in SaveData}

ApiInit ==
    /\ pc = "call"
    /\ args \in ApiCalls
    /\ ser = "open"
    /\ io = [log |-> <<>>, calls |-> <<>>]
    /\ info_data = <<>>
    /\ board_type = NoBoard
    /\ ndetect = 0
    /\ file = ClosedFile
    /\ address = 0
    /\ total = 0
    /\ data = <<>>
    /\ outfiles = <<>>
    /\ printed = <<>>
    /\ err = Ok
    /\ ret = NoRet

\* BoardCommands.execute_memory(ser, address, b_type)
CallExecuteMemory ==
    /\ pc = "call"
    /\ args.op = "execute_memory"
    /\ \E ack1 \in AckReplies, ack2 \in AckReplies :
         LET r == execute_memory(io, args.address, args.b_type, ack1, ack2)
         IN  io' = r.io /\ err' = r.err
    /\ pc' = "return"
    /\ UNCHANGED <<args, ser, info_data, board_type, ndetect, file, address,
                   total, data, outfiles, printed, ret>>

\* BoardCommands.read_state(ser, b_type)
CallReadState ==
    /\ pc = "call"
    /\ args.op = "read_state"
    /\ \E ack \in AckReplies, reply \in DataReplies(_STATE_SIZE) :
         LET r == read_state(io, args.b_type, ack, reply)
         IN  io' = r.io /\ err' = r.err /\ data' = r.data
    /\ pc' = "return"
    /\ UNCHANGED <<args, ser, info_data, board_type, ndetect, file, address,
                   total, outfiles, printed, ret>>

\* BoardUtilities.detect_board(info_data)
CallDetectBoard ==
    /\ pc = "call"
    /\ args.op = "detect_board"
    /\ info_data' = args.info
    /\ ndetect' = ndetect + 1
    /\ LET d == detect_board(args.info)
       IN  board_type' = d.type /\ err' = d.err
    /\ pc' = "return"
    /\ UNCHANGED <<args, ser, io, file, address, total, data, outfiles,
                   printed, ret>>

\* LoaderUtilities.save_records(address, data, filename)
CallSaveRecords ==
    /\ pc = "call"
    /\ args.op = "save_records"
    /\ outfiles' = Append(outfiles,
                          [name |-> "saved_srec",
                           content |-> save_records(args.address, args.data)])
    /\ pc' = "saved"
    /\ UNCHANGED <<args, ser, io, info_data, board_type, ndetect, file, address,
                   total, data, printed, err, ret>>

\* LoaderUtilities.load_records(ser, filename) on the file just saved:
\* file = open(filename, 'r'); total = 0
CallLoadRecords ==
    /\ pc = "saved"
    /\ file' = [name |-> "saved_srec", pos |-> 0, open |-> TRUE]
    /\ total' = 0
    /\ pc' = "load_records"
    /\ UNCHANGED <<args, ser, io, info_data, board_type, ndetect, address,
                   data, outfiles, printed, err, ret>>

\* LoaderUtilities.save_binary(address, data, filename)
CallSaveBinary ==
    /\ pc = "call"
    /\ args.op = "save_binary"
    /\ outfiles' = Append(outfiles,
                          [name |-> "saved_wdc",
                           content |-> save_binary(args.address, args.data)])
    /\ pc' = "saved_binary"
    /\ UNCHANGED <<args, ser, io, info_data, board_type, ndetect, file, address,
                   total, data, printed, err, ret>>

\* LoaderUtilities.load_binary(ser, filename) on the file just saved: open
\* the file and check its marker byte
CallLoadBinary ==
    /\ pc = "saved_binary"
    /\ LET start == file_read(Content("saved_wdc"), 0, 1)
       IN  /\ total' = 0
           /\ IF start = <<>> \/ start[1] # 90
              THEN /\ file' = [name |-> "saved_wdc", pos |-> Len(start), open |-> FALSE]
                   /\ Raise(BadFormat)
              ELSE /\ file' = [name |-> "saved_wdc", pos |-> 1, open |-> TRUE]
                   /\ pc' = "load_binary"
                   /\ err' = err
    /\ UNCHANGED <<args, ser, io, info_data, board_type, ndetect, address,
                   data, outfiles, printed, ret>>

\* a call and what it leads to; a loader returns at pc = "show" and raises at
\* pc = "except"
ApiNext ==
    \/ CallExecuteMemory
    \/ CallReadState
    \/ CallDetectBoard
    \/ CallSaveRecords
    \/ CallLoadRecords
    \/ LoadRecordsLine
    \/ CallSaveBinary
    \/ CallLoadBinary
    \/ LoadBinaryRecord

ApiSpec == ApiInit /\ [][ApiNext]_vars

-----------------------------------------------------------------------------
(* Properties *)

Log == io.log
Calls == io.calls

\* the positions of the trace where command code `code` is written
CmdAt(code) == {i \in 1..Len(Log) : Log[i].tag = "cmd" /\ Log[i].val = code}
AnyCmd == {i \in 1..Len(Log) : Log[i].tag = "cmd"}

\* the k-th smallest member of a set of positions
Nth(S, k) == CHOOSE i \in S : Cardinality({x \in S : x <= i}) = k

CallsOf(fn) == SelectSeq(Calls, LAMBDA c : c.fn = fn)

IsSync(e) == e.op = "write" /\ e.bytes = <<85, 170>>
IsAckRead(e) == e.op = "read" /\ e.tag = "ack" /\ e.val = 1 /\ Len(e.bytes) <= 1

\* the little-endian bytes of v, written out
LE3(v) == <<v % 256, (v \div 256) % 256, (v \div 65536) % 256>>
LE2(v) == <<v % 256, (v \div 256) % 256>>

\* C1: send_command writes 0x55 0xAA, reads one byte, and writes the command
\* code only when that byte is 0xCC; when no byte or another byte arrives it
\* fails with the no-response error and nothing more is written to the link.
C1_HandshakeGate ==
    /\ \A i \in 1..Len(Log) :
         Log[i].tag = "ack" =>
           /\ i >= 2 /\ IsSync(Log[i - 1]) /\ IsAckRead(Log[i])
           /\ IF Log[i].bytes = <<204>>
              THEN /\ i < Len(Log)
                   /\ Log[i + 1].op = "write" /\ Log[i + 1].tag = "cmd"
                   /\ Log[i + 1].bytes = <<Log[i + 1].val>>
              ELSE i = Len(Log) /\ err = NoResponse
    /\ \A j \in AnyCmd : j >= 2 /\ Log[j - 1].tag = "ack" /\ Log[j - 1].bytes = <<204>>

\* a command went through and a later handshake got a wrong byte
C1_Witness ==
    \E i, j \in 1..Len(Log) :
        /\ i < j /\ Log[i].tag = "cmd"
        /\ Log[j].tag = "ack" /\ Log[j].bytes = <<0>>
        /\ pc = "done"

\* C2: every command-code write is immediately preceded by its own sync write
\* and its own acknowledgement read; nothing is written between the sync bytes
\* and the command code, and no handshake serves two commands.
C2_OwnHandshake ==
    /\ \A j \in AnyCmd :
         /\ j >= 3
         /\ IsSync(Log[j - 2]) /\ Log[j - 2].tag = "sync"
         /\ IsAckRead(Log[j - 1])
    /\ \A j, k \in AnyCmd : j < k => k - j >= 3
    /\ Cardinality(AnyCmd) <= Cardinality({i \in 1..Len(Log) : Log[i].tag = "sync"})

\* a session that sent GET_INFO, WRITE_MEM, READ_MEM and EXEC_DEBUG
C2_Witness ==
    /\ CmdAt(GET_INFO) # {} /\ CmdAt(WRITE_MEM) # {}
    /\ CmdAt(READ_MEM) # {} /\ CmdAt(EXEC_DEBUG) # {}
    /\ Cardinality(CmdAt(WRITE_MEM)) >= 3

\* C3: the board is reset, then GET_INFO is sent and the info block is passed
\* to detect_board, once each and in that order, before any READ_MEM,
\* WRITE_MEM, EXEC_DEBUG or EXEC_MEM command is written.
C3_ResetInfoDetectFirst ==
    LET resets == {i \in 1..Len(Log) : Log[i].op = "setDTR"}
        infos == {i \in 1..Len(Log) : Log[i].tag = "info"}
        later == CmdAt(READ_MEM) \cup CmdAt(WRITE_MEM) \cup CmdAt(EXEC_DEBUG)
                   \cup CmdAt(EXEC_MEM)
    IN  /\ Cardinality(CmdAt(GET_INFO)) <= 1
        /\ Cardinality(infos) <= 1
        /\ ndetect <= 1
        /\ resets \in {{}, {1, 2, 3}}
        /\ resets # {} => <<Log[1].val, Log[2].val, Log[3].val>> = <<1, 0, 1>>
        /\ \A g \in CmdAt(GET_INFO) : resets = {1, 2, 3} /\ g > 3
        /\ \A r \in infos : r >= 2 /\ r - 1 \in CmdAt(GET_INFO)
        /\ ndetect = 1 => infos # {} /\ info_data = Log[Nth(infos, 1)].bytes
        /\ \A o \in later :
             /\ ndetect = 1
             /\ \E r \in infos : r < o

\* a session that went on to write memory and execute
C3_Witness ==
    /\ CmdAt(WRITE_MEM) # {} /\ CmdAt(EXEC_MEM) # {}
    /\ ndetect = 1

\* C4: once the serial link has been opened it is closed when the session
\* ends, on every exit path.
C4_LinkClosedAtExit ==
    pc = "done" => /\ ser # "open"
                   /\ (ser = "none" => err = SerialError /\ Log = <<>>)

\* the session ended on an error raised inside a load, with the link closed
C4_Witness ==
    /\ pc = "done" /\ ser = "closed"
    /\ err = NoResponse /\ file.name # "" /\ Len(Calls) >= 2

\* C5: when detect_board yields Unknown the session fails with an error and
\* writes nothing more to the link: no load, save, show, exec or terminal
\* is started.
C5_UnknownBoardStops ==
    board_type = UNKNOWN =>
        /\ err = UnknownBoard
        /\ pc \in {"except", "finally", "done"}
        /\ pc = "done" => ret = 0 - 1
        /\ Len(Log) = 7 /\ Log[7].tag = "info"
        /\ Calls = <<>> /\ file = ClosedFile /\ outfiles = <<>> /\ printed = <<>>

\* an unknown board, with every kind of action requested
C5_Witness ==
    /\ board_type = UNKNOWN /\ pc = "done"
    /\ args.main.loadraw # NoArg /\ args.show # NoArg /\ args.exec # NoArg
    /\ args.term

\* C6: after a successful READ_MEM handshake read_memory writes
\* address & 0xFFFFFF as 3 little-endian bytes, size & 0xFFFF as 2
\* little-endian bytes, and asks the link for exactly size & 0xFFFF bytes;
\* read_memory(0x01FFFFFF, 0x1FFFF) puts 0xFFFFFF and 0xFFFF on the wire.
C6_ReadMemoryWire ==
    LET cmds == CmdAt(READ_MEM)
        calls == CallsOf("read_memory")
    IN  /\ Cardinality(cmds) <= Len(calls)
        /\ \A k \in 1..Cardinality(cmds) :
             LET j == Nth(cmds, k)
                 c == calls[k]
                 a == c.address % 16777216
                 n == c.size % 65536
             IN  /\ Len(Log) >= j + 3
                 /\ Log[j + 1].op = "write" /\ Log[j + 1].bytes = LE3(a)
                 /\ Log[j + 2].op = "write" /\ Log[j + 2].bytes = LE2(n)
                 /\ Log[j + 3].op = "read" /\ Log[j + 3].val = n
                 /\ (c.address = 33554431 /\ c.size = 131071) =>
                      /\ Log[j + 1].bytes = <<255, 255, 255>>
                      /\ Log[j + 2].bytes = <<255, 255>>
                      /\ Log[j + 3].val = 65535

\* read_memory(0x01FFFFFF, 0x1FFFF) went through its handshake
C6_Witness ==
    \E k \in 1..Len(CallsOf("read_memory")) :
        /\ CallsOf("read_memory")[k].address = 33554431
        /\ CallsOf("read_memory")[k].size = 131071
        /\ Cardinality(CmdAt(READ_MEM)) >= k

\* C7: when the board delivers fewer bytes than requested, read_memory fails
\* with a short-read error and never returns a shorter byte string.
C7_ShortReadFails ==
    \A i \in 1..Len(Log) :
        (Log[i].tag = "data" /\ Len(Log[i].bytes) < Log[i].val) => err # Ok

\* C8: after a successful WRITE_MEM handshake write_memory writes the 3
\* little-endian bytes of address & 0xFFFFFF, the 2 length bytes, then the
\* payload, and reads nothing: its only read is the acknowledgement byte.
C8_WriteMemoryOrder ==
    LET cmds == CmdAt(WRITE_MEM)
        calls == CallsOf("write_memory")
    IN  /\ Cardinality(cmds) <= Len(calls)
        /\ \A k \in 1..Cardinality(cmds) :
             LET j == Nth(cmds, k)
                 c == calls[k]
             IN  /\ Len(Log) >= j + 3
                 /\ \A i \in (j + 1)..(j + 3) : Log[i].op = "write"
                 /\ Log[j + 1].bytes = LE3(c.address % 16777216)
                 /\ Len(Log[j + 2].bytes) = 2
                 /\ Log[j + 3].tag = "payload"
                 /\ Len(Log) >= j + 4 => Log[j + 4].op # "read"

\* a write_memory was followed by another command on the link
C8_Witness ==
    \E j \in CmdAt(WRITE_MEM) :
        /\ Len(Log) >= j + 4
        /\ Log[j + 3].bytes # <<>>
        /\ Log[j + 4].tag = "sync"

\* C9: the payload write_memory sends is the prefix of data of length
\* len(data) & 0xFFFF (all of data when len(data) <= 65535), and the 2-byte
\* length field equals the number of payload bytes that follow it.
C9_WritePayloadPrefix ==
    LET cmds == CmdAt(WRITE_MEM)
        calls == CallsOf("write_memory")
    IN  \A k \in 1..Cardinality(cmds) :
          LET j == Nth(cmds, k)
              d == calls[k].data
              sent == Log[j + 3].bytes
              field == Log[j + 2].bytes
          IN  /\ Len(Log) >= j + 3
              /\ Len(sent) = Len(d) % 65536
              /\ Len(sent) <= 65535
              /\ sent = SubSeq(d, 1, Len(sent))
              /\ Len(d) <= 65535 => sent = d
              /\ field[1] + 256 * field[2] = Len(sent)

\* data longer than 65535 bytes was written, with a non-empty payload
C9_Witness ==
    \E k \in 1..Cardinality(CmdAt(WRITE_MEM)) :
        /\ Len(CallsOf("write_memory")[k].data) > 65535
        /\ Log[Nth(CmdAt(WRITE_MEM), k) + 3].bytes # <<>>

\* C10: every address written to the link lies in 0..0xFFFFFF and every
\* length or size field in 0..0xFFFF, whatever the caller supplies.
C10_WireValuesInRange ==
    /\ err # Overflow
    /\ \A i \in 1..Len(Log) :
         /\ Log[i].tag = "addr" =>
              /\ Log[i].val \in 0..16777215
              /\ Len(Log[i].bytes) = 3
              /\ \A b \in 1..3 : Log[i].bytes[b] \in 0..255
              /\ Log[i].bytes[1] + 256 * Log[i].bytes[2]
                   + 65536 * Log[i].bytes[3] = Log[i].val
         /\ Log[i].tag \in {"len", "size"} =>
              /\ Log[i].val \in 0..65535
              /\ Len(Log[i].bytes) = 2
              /\ \A b \in 1..2 : Log[i].bytes[b] \in 0..255
              /\ Log[i].bytes[1] + 256 * Log[i].bytes[2] = Log[i].val

\* load_raw_binary's address advanced past 0xFFFFFF and was written
C10_Witness ==
    \E k \in 1..Cardinality(CmdAt(WRITE_MEM)) :
        /\ CallsOf("write_memory")[k].address > 16777215
        /\ pc = "load_raw_binary"
        /\ Log[Nth(CmdAt(WRITE_MEM), k) + 1].val = 0

\* the call made on the library and whether it has returned or raised
Returned(op) == args.op = op /\ pc = "return"

\* C11: execute_memory on W65C02SXB or W65C816SXB, for any address, first
\* issues one write_memory to 0x7E00 of a 16-byte block that is zero except
\* bytes 6..7 = address & 0xFFFF little-endian, bytes 10..11 = 0xFF, 0x01 and
\* bytes 12..13 = 0x34, 0x01, and only after that write sends EXEC_DEBUG with
\* its own handshake and no argument bytes.
C11_ExecSxbStagesBlock ==
    (Returned("execute_memory") /\ args.b_type \in {W65C02SXB, W65C816SXB}) =>
        LET entry == args.address % 65536
            block == <<0, 0, 0, 0, 0, 0, entry % 256, entry \div 256,
                       0, 0, 255, 1, 52, 1, 0, 0>>
        IN  /\ Calls = <<[fn |-> "write_memory", address |-> 32256,
                          size |-> 16, data |-> block]>>
            /\ CmdAt(EXEC_MEM) = {}
            /\ Len(Log) >= 2 /\ IsSync(Log[1]) /\ IsAckRead(Log[2])
            /\ Len(Log) >= 3 =>
                 /\ Len(Log) >= 6
                 /\ Log[3].bytes = <<2>>
                 /\ Log[4].bytes = <<0, 126, 0>>
                 /\ Log[5].bytes = <<16, 0>>
                 /\ Log[6].op = "write" /\ Log[6].bytes = block
            /\ Len(Log) >= 7 =>
                 /\ Len(Log) >= 8 /\ IsSync(Log[7]) /\ IsAckRead(Log[8])
            /\ CmdAt(EXEC_DEBUG) \subseteq {9}
            /\ Len(Log) <= 9
            /\ err = Ok <=> (Len(Log) = 9 /\ Log[9].bytes = <<5>>)

\* the block was staged for an address above 16 bits and EXEC_DEBUG was sent
C11_Witness ==
    /\ Returned("execute_memory") /\ args.b_type = W65C816SXB
    /\ args.address = 305419896
    /\ err = Ok /\ CmdAt(EXEC_DEBUG) # {}
    /\ Log[6].bytes[7] = 120 /\ Log[6].bytes[8] = 86

\* C12: execute_memory on MENSCH RevA, RevB or RevC, for any address, sends
\* EXEC_MEM after a handshake and then writes exactly the 3 little-endian
\* bytes of address & 0xFFFFFF; it issues no write_memory and touches no
\* state block.
C12_ExecMenschSendsAddress ==
    (Returned("execute_memory")
       /\ args.b_type \in {MyMENSCH_RevA, MyMENSCH_RevB, MyMENSCH_RevC}) =>
        /\ Calls = <<>>
        /\ CmdAt(WRITE_MEM) = {} /\ CmdAt(EXEC_DEBUG) = {}
        /\ \A i \in 1..Len(Log) : Log[i].tag # "payload"
        /\ Len(Log) >= 2 /\ IsSync(Log[1]) /\ IsAckRead(Log[2])
        /\ IF Log[2].bytes = <<204>>
           THEN /\ err = Ok
                /\ Len(Log) = 4
                /\ Log[3].op = "write" /\ Log[3].bytes = <<6>>
                /\ Log[4].op = "write"
                /\ Log[4].bytes = LE3(args.address % 16777216)
           ELSE err = NoResponse /\ Len(Log) = 2

\* EXEC_MEM went out with an address that needed masking
C12_Witness ==
    /\ Returned("execute_memory") /\ args.b_type = MyMENSCH_RevB
    /\ args.address = 305419896
    /\ err = Ok /\ Log[4].bytes = <<120, 86, 52>>

\* C13: execute_memory(addr, Unknown) fails with the unknown-board error for
\* every addr, before writing any byte to the link: no sync bytes, no
\* command, no state block.
C13_ExecUnknownFailsFirst ==
    (Returned("execute_memory") /\ args.b_type = UNKNOWN) =>
        /\ err = ExecUnknown
        /\ Log = <<>>
        /\ Calls = <<>>

\* execute_memory was called on an Unknown board
C13_Witness ==
    /\ Returned("execute_memory") /\ args.b_type = UNKNOWN
    /\ args.address = 65535 /\ err # Ok

\* C14: read_state on W65C02SXB or W65C816SXB is exactly
\* read_memory(0x7E00, 16); on every other board type it fails with an
\* unsupported-board error without writing any byte to the link.
C14_ReadStateSxbOnly ==
    Returned("read_state") =>
        IF args.b_type \in {W65C02SXB, W65C816SXB}
        THEN /\ Calls = <<[fn |-> "read_memory", address |-> 32256,
                           size |-> 16, data |-> <<>>]>>
             /\ Len(Log) >= 2 /\ IsSync(Log[1]) /\ IsAckRead(Log[2])
             /\ IF Log[2].bytes = <<204>>
                THEN /\ err = Ok
                     /\ Len(Log) = 6
                     /\ Log[3].bytes = <<3>>
                     /\ Log[4].op = "write" /\ Log[4].bytes = <<0, 126, 0>>
                     /\ Log[5].op = "write" /\ Log[5].bytes = <<16, 0>>
                     /\ Log[6].op = "read" /\ Log[6].val = 16
                     /\ data = Log[6].bytes
                ELSE err = NoResponse /\ Len(Log) = 2 /\ data = <<>>
        ELSE /\ err = StateUnsupported
             /\ Log = <<>> /\ Calls = <<>> /\ data = <<>>

\* read_state was refused on a MENSCH board
C14_Witness ==
    /\ Returned("read_state") /\ args.b_type = MyMENSCH_RevC
    /\ err = StateUnsupported

\* C15: for every 29-byte info block detect_board returns without raising:
\* W65C02SXB when byte 3 = 0x00 and byte 4 = 0x58; W65C816SXB when byte 3 =
\* 0x01 and byte 4 = 0x58; MENSCH RevA, RevB, RevC when byte 3 = 0x41, 0x42,
\* 0x43 and bytes 0..2 = 0x4D, 0x59, 0x4D; Unknown in every other case.  The
\* result is a function of bytes 0..4 only.
C15_DetectBoardTable ==
    (Returned("detect_board") /\ Len(args.info) = 29) =>
        LET b == args.info
            marker == b[1] = 77 /\ b[2] = 89 /\ b[3] = 77
            expected ==
                CASE b[4] = 0 /\ b[5] = 88 -> 0
                  [] b[4] = 1 /\ b[5] = 88 -> 1
                  [] b[4] = 65 /\ marker -> 2
                  [] b[4] = 66 /\ marker -> 3
                  [] b[4] = 67 /\ marker -> 4
                  [] OTHER -> 100
        IN  /\ err = Ok
            /\ board_type = expected
            /\ \A other \in InfoBlocks :
                 SubSeq(other, 1, 5) = SubSeq(b, 1, 5) =>
                     detect_board(other).type = board_type

\* a RevB block whose bytes 5..28 are those of a W65C02SXB block
C15_Witness ==
    /\ Returned("detect_board") /\ Len(args.info) = 29
    /\ SubSeq(args.info, 1, 5) = <<77, 89, 77, 66, 0>>
    /\ SubSeq(args.info, 6, 29) = SubSeq(InfoW65C02, 6, 29)
    /\ board_type = MyMENSCH_RevB /\ err = Ok

\* C16: detect_board fails with a length error exactly when the info block is
\* not 29 bytes long; in a session a GET_INFO reply shorter than 29 bytes
\* ends the session with that error and no board type.
C16_InfoLengthChecked ==
    ndetect = 1 =>
        /\ err = InfoLength <=> Len(info_data) # 29
        /\ Len(info_data) # 29 =>
             /\ board_type = NoBoard
             /\ pc \in {"except", "finally", "done"}
             /\ pc = "done" => ret = 0 - 1
             /\ Len(Log) = 7
             /\ Log[7].tag = "info" /\ Log[7].val = 29
             /\ Log[7].bytes = info_data
             /\ Calls = <<>> /\ file = ClosedFile /\ outfiles = <<>>

\* a session whose GET_INFO reply was one byte short
C16_Witness ==
    /\ ndetect = 1 /\ Len(info_data) = 28
    /\ err = InfoLength /\ pc = "done" /\ ser = "closed"

\* the payloads of a sequence of calls, concatenated in order
RECURSIVE Payloads(_)
Payloads(calls) ==
    IF calls = <<>> THEN <<>> ELSE calls[1].data \o Payloads(Tail(calls))

\* C17: for every address in 0..0xFFFFFF and every data of length 0..4096,
\* loading with load_records the file that save_records(address, data) wrote
\* produces write_memory calls whose payloads concatenated in order equal
\* data and whose addresses are contiguous starting at address.
C17_RecordsRoundTrip ==
    (args.op = "save_records" /\ pc = "show"
       /\ args.address \in 0..16777215 /\ Len(args.data) <= 4096) =>
        /\ \A k \in 1..Len(Calls) : Calls[k].fn = "write_memory"
        /\ Payloads(Calls) = args.data
        /\ \A k \in 1..Len(Calls) :
             Calls[k].address
                 = args.address + Len(Payloads(SubSeq(Calls, 1, k - 1)))

\* the value of each character of a text of hex digits, either case
HexValues(str) == [i \in 1..Len(str) |-> HexValue(str[i])]

\* v written with exactly n hex digits, as digit values
FixedHex(v, n) == [i \in 1..n |-> (v \div (16 ^ (n - i))) % 16]

RECURSIVE FixedHexBytes(_)
FixedHexBytes(b) ==
    IF b = <<>> THEN <<>> ELSE FixedHex(b[1], 2) \o FixedHexBytes(Tail(b))

\* C18: save_records(address, data) splits data into consecutive chunks of 32
\* bytes (the last one shorter) and emits one line per chunk: 'S2', the
\* 2-hex-digit value chunk_len + 4, the 6-hex-digit chunk address, the chunk
\* bytes as 2 hex digits each, and the 2-hex-digit checksum 0xFF - ((byte
\* count + the three address bytes + the sum of the chunk bytes) mod 256);
\* the chunk address advances by the chunk length between lines.
\* save_records(0x8000, [0x01, 0x02]) gives the one line S2 06 008000 0102 76.
C18_SaveRecordsLines ==
    (args.op = "save_records" /\ pc = "saved") =>
        LET d == args.data
            lines == Lines(outfiles[1].content)
            n == (Len(d) + 31) \div 32
        IN  /\ Len(lines) = n
            /\ \A k \in 1..n :
                 LET chunk == SubSeq(d, 32 * (k - 1) + 1, Min(32 * k, Len(d)))
                     a == args.address + 32 * (k - 1)
                     count == Len(chunk) + 4
                     sum == count + (a % 256) + ((a \div 256) % 256)
                              + ((a \div 65536) % 256) + SumBytes(chunk)
                     check == 255 - (sum % 256)
                     line == lines[k]
                 IN  /\ Len(line) = 2 + 2 + 6 + 2 * Len(chunk) + 2 + 1
                     /\ SubSeq(line, 1, 2) = <<"S", "2">>
                     /\ line[Len(line)] = "\n"
                     /\ \A i \in 3..(Len(line) - 1) : IsHex(line[i])
                     /\ HexValues(SubSeq(line, 3, Len(line) - 1))
                          = FixedHex(count, 2) \o FixedHex(a, 6)
                              \o FixedHexBytes(chunk) \o FixedHex(check, 2)
            /\ (args.address = 32768 /\ d = <<1, 2>>) =>
                 HexValues(SubSeq(lines[1], 3, 16))
                     = <<0, 6, 0, 0, 8, 0, 0, 0, 0, 1, 0, 2, 7, 6>>

\* a line load_records takes for a record and the fields of its text: the
\* count, the address, and the j-th byte after the address
IsRecord(line) == Len(line) >= 2 /\ line[1] = "S" /\ line[2] \in {"1", "2"}
AddrDigits(line) == IF line[2] = "1" THEN 4 ELSE 6
HeaderOf(line) == 4 + AddrDigits(line)
HeaderOk(line) ==
    /\ Len(line) >= HeaderOf(line)
    /\ \A i \in 3..HeaderOf(line) : IsHex(line[i])
CountOf(line) ==
    16 * HexValue(line[3]) + HexValue(line[4]) - ((AddrDigits(line) \div 2) + 1)
AddrOf(line) == HexNumber(SubSeq(line, 5, HeaderOf(line)))
ByteAt(line, j) ==
    16 * HexValue(line[HeaderOf(line) + 2 * j - 1])
        + HexValue(line[HeaderOf(line) + 2 * j])

\* the line holds the count bytes of data its count field announces
WellFormed(line) ==
    /\ HeaderOk(line)
    /\ CountOf(line) >= 0
    /\ Len(line) >= HeaderOf(line) + 2 * CountOf(line)
    /\ \A i \in 3..(HeaderOf(line) + 2 * CountOf(line)) : IsHex(line[i])

C20_BadMagicRefused ==
    (args.main.loadbin # NoArg /\ file.name # "") =>
        LET content == Content(file.name)
            marked == content # <<>> /\ content[1] = 90
        IN  /\ err = BadFormat <=> ~marked
            /\ ~marked =>
                 /\ ~file.open
                 /\ Calls = <<>> /\ CmdAt(WRITE_MEM) = {}
                 /\ Len(Log) = 7 /\ Log[7].tag = "info"
                 /\ printed = <<>>
                 /\ pc \in {"except", "finally", "done"}
                 /\ pc = "done" => ret = 0 - 1

\* an empty file was given to --loadbin, with show and exec requested
C20_Witness ==
    /\ args.main.loadbin = <<"empty_wdc">> /\ file.name = "empty_wdc"
    /\ args.show # NoArg /\ args.exec # NoArg
    /\ err = BadFormat /\ pc = "done"

\* the complete records {3-byte address, 3-byte size, size payload bytes} of
\* the bytes that follow the marker, up to the first one that is cut short
RECURSIVE WdcRecords(_)
WdcRecords(b) ==
    IF Len(b) < 6 THEN <<>>
    ELSE LET a == b[1] + 256 * b[2] + 65536 * b[3]
             n == b[4] + 256 * b[5] + 65536 * b[6]
         IN  IF Len(b) - 6 < n THEN <<>>
             ELSE <<[address |-> a, data |-> SubSeq(b, 7, 6 + n)]>>
                    \o WdcRecords(SubSeq(b, 7 + n, Len(b)))

\* the (address, data) arguments of a sequence of calls
Written_To(calls) ==
    [k \in 1..Len(calls) |-> [address |-> calls[k].address, data |-> calls[k].data]]

\* C21: after the 0x5A marker load_binary issues one write_memory(address,
\* payload) for every complete record of the file, in file order, and stops
\* without error only at a short header or a short payload; every complete
\* record before the point of truncation is written, whatever its size, and
\* the truncated record is not.  The file [0x5A, 0x00,0x10,0x00,
\* 0x02,0x00,0x00, 0xAA,0xBB] yields exactly one write_memory(0x001000,
\* [0xAA,0xBB]).
C21_EveryCompleteRecord ==
    (args.main.loadbin # NoArg /\ file.name # ""
       /\ Content(file.name) # <<>> /\ Content(file.name)[1] = 90) =>
        LET recs == WdcRecords(Tail(Content(file.name)))
            W == CallsOf("write_memory")
        IN  /\ pc = "load_binary" =>
                 /\ Len(W) <= Len(recs)
                 /\ Written_To(W) = SubSeq(recs, 1, Len(W))
            /\ pc = "show" =>
                 /\ err = Ok
                 /\ Written_To(W) = recs
            /\ (file.name = "small_wdc" /\ pc = "show") =>
                 Written_To(W) = <<[address |-> 4096, data |-> <<170, 187>>]>>

\* C22: for every (address, data), loading with load_binary the file that
\* save_binary(address, data) wrote yields exactly one write_memory call, with
\* that address and that data.
C22_BinaryRoundTrip ==
    (args.op = "save_binary" /\ pc = "show" /\ args.address \in 0..16777215) =>
        /\ \A k \in 1..Len(Calls) : Calls[k].fn = "write_memory"
        /\ Written_To(Calls) = <<[address |-> args.address, data |-> args.data]>>

\* C23: save_binary(address, data) writes a file consisting of exactly the
\* byte 0x5A, the 3 little-endian bytes of address, the 3 little-endian bytes
\* of len(data), then data: one record and one marker per call, and the size
\* field equals the number of payload bytes that follow.
C23_SaveBinaryLayout ==
    (args.op = "save_binary" /\ pc # "call") =>
        /\ Len(outfiles) = 1
        /\ LET f == outfiles[1].content
               a == args.address % 16777216
               d == args.data
           IN  /\ Len(f) = 7 + Len(d)
               /\ f[1] = 90
               /\ SubSeq(f, 2, 4) = LE3(a)
               /\ SubSeq(f, 5, 7) = LE3(Len(d))
               /\ SubSeq(f, 8, Len(f)) = d
               /\ f[5] + 256 * f[6] + 65536 * f[7] = Len(f) - 7

\* 65 bytes were saved for an address above 24 bits
C23_Witness ==
    /\ args.op = "save_binary" /\ pc = "saved_binary"
    /\ args.address = 33554431 /\ Len(args.data) = 65
    /\ SubSeq(outfiles[1].content, 1, 7) = <<90, 255, 255, 255, 65, 0, 0>>

\* the address fields written on the link, in order
WireAddresses == SelectSeq(Log, LAMBDA e : e.op = "write" /\ e.tag = "addr")

\* C24: load_raw_binary(address, file) issues one write_memory per 64-byte
\* chunk of the file in file order (only the last chunk may be shorter, an
\* empty file yields no write); the k-th call (k from 0) targets
\* address + 64*k, the concatenated payloads equal the file contents and the
\* reported total equals the file size.  address is the argument reduced to
\* 24 bits, as the loader does on entry; on the link the target is reduced
\* to 24 bits again.  Stated of the load, until the session's next step.
C24_RawChunks ==
    (args.main.loadraw # NoArg /\ file.name # "" /\ (printed = <<>> \/ pc = "show")) =>
        LET a0 == args.main.loadraw[1] % 16777216
            c == Content(file.name)
            W == CallsOf("write_memory")
            A == WireAddresses
            chunks == (Len(c) + 63) \div 64
        IN  /\ Len(W) <= chunks
            /\ \A k \in 1..Len(W) :
                 /\ W[k].address = a0 + 64 * (k - 1)
                 /\ W[k].data = SubSeq(c, 64 * (k - 1) + 1, Min(64 * k, Len(c)))
                 /\ k < chunks => Len(W[k].data) = 64
                 /\ W[k].data # <<>>
            /\ Len(A) <= Len(W)
            /\ \A k \in 1..Len(A) : A[k].val = (a0 + 64 * (k - 1)) % 16777216
            /\ pc = "show" =>
                 /\ err = Ok
                 /\ Len(W) = chunks
                 /\ Len(A) = chunks
                 /\ Payloads(W) = c
                 /\ printed = <<Len(c)>>
                 /\ file.open = FALSE
            /\ c = <<>> => W = <<>>

\* a file of two full chunks and a shorter one was loaded across the top of
\* the 24-bit address space
C24_Witness ==
    /\ args.main.loadraw # NoArg
    /\ args.main.loadraw[1] = 16777152
    /\ pc = "show"
    /\ Len(CallsOf("write_memory")) = 3
    /\ CallsOf("write_memory")[3].address = 16777280
    /\ Len(CallsOf("write_memory")[3].data) = RawTail
    /\ WireAddresses[2].val = 0
    /\ printed = <<128 + RawTail>>

\* the region a saved file records: the address of its first record and the
\* number of data bytes it holds
RECURSIVE SrecDataBytes(_)
SrecDataBytes(lines) ==
    IF lines = <<>> THEN 0 ELSE CountOf(lines[1]) + SrecDataBytes(Tail(lines))
SavedRegion(f) ==
    IF f.name = "out_wdc"
    THEN [address |-> f.content[2] + 256 * f.content[3] + 65536 * f.content[4],
          length |-> Len(f.content) - 7]
    ELSE LET lines == Lines(f.content)
         IN  [address |-> IF lines = <<>> THEN NoBoard ELSE AddrOf(lines[1]),
              length |-> SrecDataBytes(lines)]

\* C25: a save operation (SREC or binary) sends exactly one READ_MEM command
\* for the whole requested region and hands the bytes it read to the encoder
\* only after that read has completed; the file records the same
\* (address, length) region that was requested: the address written in the
\* file equals the address the bytes were read from and the number of data
\* bytes in the file equals the requested length.
C25_SaveRegion ==
    ((args.main.save # NoArg \/ args.main.savebin # NoArg) /\ pc = "show") =>
        LET req == IF args.main.save # NoArg THEN args.main.save
                   ELSE args.main.savebin
            R == CmdAt(READ_MEM)
            j == Nth(R, 1)
        IN  /\ Cardinality(R) = 1
            /\ Len(Log) = j + 3
            /\ Log[j + 3].op = "read" /\ Log[j + 3].tag = "data"
            /\ data = Log[j + 3].bytes
            /\ Len(outfiles) = 1
            /\ outfiles[1].name = req[3]
            /\ SavedRegion(outfiles[1]).address = Log[j + 1].val
            /\ SavedRegion(outfiles[1]).length = req[2]

-----------------------------------------------------------------------------
(* The host and the board as two processes.  The host runs cli() for
   --show and --exec, one step per blocking call on the port; the board
   takes the host's writes one at a time and sends its reply bytes one at a
   time.  io carries, besides the trace, the bytes in flight in each
   direction and the board's position in the protocol.  A byte on its way to
   the host is a record: its value, the number of the command it answers and
   whether it is that command's acknowledgement, memory data or info block. *)

LinkArgs ==
    {[main |-> MainNone, show |-> <<32768, 2>>, exec |-> <<8192>>, term |-> FALSE]}

\* the values a byte of the board's memory may have
BoardBytes == {7, 204}
BoardInfos == {InfoW65C02, InfoMyMENSCH}

Reply(bytes, k, kind) ==
    [i \in 1..Len(bytes) |-> [b |-> bytes[i], of |-> k, kind |-> kind]]
Plain(reply) == [i \in 1..Len(reply) |-> reply[i].b]

\* the sequences of n bytes the board's memory may hold
RECURSIVE BoardData(_)
BoardData(n) ==
    IF n = 0 THEN {<<>>}
    ELSE {<<b>> \o d : b \in BoardBytes, d \in BoardData(n - 1)}

LinkInit ==
    /\ pc = "open"
    /\ args \in LinkArgs
    /\ ser = "none"
    /\ \E info \in BoardInfos :
         io = [log |-> <<>>, calls |-> <<>>, at |-> "call", n |-> 0,
               rx |-> <<>>, tx |-> <<>>,
               board |-> [st |-> "idle", n |-> 0, pending |-> <<>>, info |-> info]]
    /\ info_data = <<>>
    /\ board_type = NoBoard
    /\ ndetect = 0
    /\ file = ClosedFile
    /\ address = 0
    /\ total = 0
    /\ data = <<>>
    /\ outfiles = <<>>
    /\ printed = <<>>
    /\ err = Ok
    /\ ret = NoRet

\* ser.write(bytes): the bytes leave for the board
Sent(s, tag, val, bytes) ==
    [Logged(s, Wr(tag, val, bytes)) EXCEPT !.tx = Append(@, bytes)]

\* ser.read(n) with timeout = 1.0: n bytes once n have arrived, otherwise
\* the bytes that arrived before the timeout
Received(s, tag, n) ==
    LET got == Take(s.rx, n)
    IN  [Logged(s, Rd(tag, n, got)) EXCEPT !.rx = SubSeq(@, Len(got) + 1, Len(@))]

IsSxb(b_type) == b_type \in {W65C02SXB, W65C816SXB}

\* send_command: ser.write(sync), for the command the session has reached
LinkSendSync ==
    /\ pc \in {"info", "show", "exec"}
    /\ io.at \in {"call", "call2"}
    /\ LET s0 == CASE pc = "show" ->
                        Called(io, "read_memory", args.show[1], args.show[2], <<>>)
                   [] pc = "exec" /\ IsSxb(board_type) /\ io.at = "call" ->
                        Called(io, "write_memory", _STATE_ADDRESS, _STATE_SIZE,
                               state_block(args.exec[1]))
                   [] OTHER -> io
       IN  io' = [Sent(s0, "sync", 0, <<85, 170>>) EXCEPT
                     !.at = IF io.at = "call" THEN "ack" ELSE "ack2",
                     !.n = @ + 1]
    /\ UNCHANGED <<pc, args, ser, info_data, board_type, ndetect, file, address,
                   total, data, outfiles, printed, err, ret>>

\* send_command: resp = ser.read(1), the check, ser.write(cmd); then the
\* writes of the operation that follow without a read in between
LinkReadAck ==
    /\ pc \in {"info", "show", "exec"}
    /\ io.at \in {"ack", "ack2"}
    /\ LET s1 == Received(io, "ack", 1)
           got == Take(io.rx, 1)
       IN  IF got = <<>> \/ got[1].b # 204
           THEN io' = s1 /\ Raise(NoResponse)
           ELSE /\ err' = err
                /\ CASE pc = "info" ->
                          /\ io' = [Sent(s1, "cmd", GET_INFO, <<GET_INFO>>)
                                      EXCEPT !.at = "data"]
                          /\ pc' = pc
                     [] pc = "show" ->
                          LET a == Mask(args.show[1], 24)
                              n == Mask(args.show[2], 16)
                          IN  /\ io' = [Sent(Sent(Sent(s1,
                                            "cmd", READ_MEM, <<READ_MEM>>),
                                            "addr", a, to_bytes(a, 3)),
                                            "size", n, to_bytes(n, 2))
                                          EXCEPT !.at = "data"]
                              /\ pc' = pc
                     [] pc = "exec" /\ IsSxb(board_type) /\ io.at = "ack" ->
                          LET d == state_block(args.exec[1])
                          IN  /\ io' = [Sent(Sent(Sent(Sent(s1,
                                            "cmd", WRITE_MEM, <<WRITE_MEM>>),
                                            "addr", _STATE_ADDRESS,
                                            to_bytes(_STATE_ADDRESS, 3)),
                                            "len", Len(d), to_bytes(Len(d), 2)),
                                            "payload", Len(d), d)
                                          EXCEPT !.at = "call2"]
                              /\ pc' = pc
                     [] pc = "exec" /\ IsSxb(board_type) /\ io.at = "ack2" ->
                          /\ io' = [Sent(s1, "cmd", EXEC_DEBUG, <<EXEC_DEBUG>>)
                                      EXCEPT !.at = "call"]
                          /\ pc' = "term"
                     [] OTHER ->
                          LET a == Mask(args.exec[1], 24)
                          IN  /\ io' = [Sent(Sent(s1,
                                            "cmd", EXEC_MEM, <<EXEC_MEM>>),
                                            "addr", a, to_bytes(a, 3))
                                          EXCEPT !.at = "call"]
                              /\ pc' = "term"
    /\ UNCHANGED <<args, ser, info_data, board_type, ndetect, file, address,
                   total, data, outfiles, printed, ret>>

\* read_info_data: ser.read(29); read_memory: ser.read(size)
LinkReadData ==
    /\ pc \in {"info", "show"}
    /\ io.at = "data"
    /\ IF pc = "info"
       THEN /\ io' = [Received(io, "info", 29) EXCEPT !.at = "call"]
            /\ info_data' = Plain(Take(io.rx, 29))
            /\ pc' = "detect"
            /\ data' = data
       ELSE LET n == Mask(args.show[2], 16)
            IN  /\ io' = [Received(io, "data", n) EXCEPT !.at = "call"]
                /\ data' = Plain(Take(io.rx, n))
                /\ pc' = "exec"
                /\ info_data' = info_data
    /\ UNCHANGED <<args, ser, board_type, ndetect, file, address, total,
                   outfiles, printed, err, ret>>

\* the board sends the next byte of its reply
BoardSend ==
    /\ io.board.pending # <<>>
    /\ io' = [io EXCEPT !.rx = Append(@, Head(io.board.pending)),
                        !.board.pending = Tail(@)]
    /\ UNCHANGED <<pc, args, ser, info_data, board_type, ndetect, file, address,
                   total, data, outfiles, printed, err, ret>>

\* the board, its reply sent, takes the next write of the host
BoardReceive ==
    /\ io.board.pending = <<>>
    /\ io.tx # <<>>
    /\ LET item == Head(io.tx)
           b == io.board
           taken == [io EXCEPT !.tx = Tail(@)]
       IN  CASE b.st = "idle" ->
                  io' = IF item = <<85, 170>>
                        THEN [taken EXCEPT
                                 !.board.n = @ + 1,
                                 !.board.st = "cmd",
                                 !.board.pending = Reply(<<204>>, b.n + 1, "ack")]
                        ELSE taken
             [] b.st = "cmd" ->
                  io' = CASE item = <<GET_INFO>> ->
                               [taken EXCEPT
                                   !.board.st = "idle",
                                   !.board.pending = Reply(b.info, b.n, "info")]
                          [] item = <<READ_MEM>> -> [taken EXCEPT !.board.st = "read_addr"]
                          [] item = <<WRITE_MEM>> -> [taken EXCEPT !.board.st = "write_addr"]
                          [] item = <<EXEC_MEM>> -> [taken EXCEPT !.board.st = "exec_addr"]
                          [] OTHER -> [taken EXCEPT !.board.st = "idle"]
             [] b.st = "read_addr" -> io' = [taken EXCEPT !.board.st = "read_size"]
             [] b.st = "read_size" ->
                  \E d \in BoardData(from_bytes(item)) :
                     io' = [taken EXCEPT
                               !.board.st = "idle",
                               !.board.pending = Reply(d, b.n, "data")]
             [] b.st = "write_addr" -> io' = [taken EXCEPT !.board.st = "write_len"]
             [] b.st = "write_len" -> io' = [taken EXCEPT !.board.st = "write_data"]
             [] OTHER -> io' = [taken EXCEPT !.board.st = "idle"]
    /\ UNCHANGED <<pc, args, ser, info_data, board_type, ndetect, file, address,
                   total, data, outfiles, printed, err, ret>>

LinkNext ==
    \/ OpenPort
    \/ ResetBoard
    \/ LinkSendSync
    \/ LinkReadAck
    \/ LinkReadData
    \/ DetectBoard
    \/ NoAction
    \/ Term
    \/ Except
    \/ Finally
    \/ Bye
    \/ BoardSend
    \/ BoardReceive

LinkSpec == LinkInit /\ [][LinkNext]_vars

\* C26: with the host and the board as two processes, the host never starts
\* a new command (writes the sync bytes) while the previous command is still
\* outstanding, that is while the board still has reply bytes of the
\* previous command to deliver; so the byte the host takes as a handshake
\* acknowledgement is never a leftover reply byte of an earlier READ_MEM or
\* GET_INFO.
C26_OneOutstanding ==
    /\ io.at \in {"ack", "ack2"} =>
         /\ \A i \in 1..Len(io.board.pending) : io.board.pending[i].of = io.n
         /\ \A i \in 1..Len(io.rx) : io.rx[i].of = io.n
    /\ \A i \in 1..Len(Log) :
         (Log[i].op = "read" /\ Log[i].tag = "ack" /\ Log[i].bytes # <<>>) =>
             Log[i].bytes[1].kind \notin {"data", "info"}

\* the positions of the trace where an acknowledgement read did not return 0xCC
FailedAcks ==
    {i \in 1..Len(Log) :
        Log[i].op = "read" /\ Log[i].tag = "ack" /\ Log[i].bytes # <<204>>}
Count(tag) == Cardinality({i \in 1..Len(Log) : Log[i].tag = tag})

\* C27: no layer retries: when a handshake fails inside any operation (read,
\* write, execute, load, save), that operation has written the sync bytes for
\* the failing command exactly once, writes no further byte to the link
\* afterwards, and the error reaches the session boundary (cli() ends
\* through its handler, returns -1 and closes the port).
C27_NoRetry ==
    /\ Count("sync") = Count("ack")
    /\ \A i \in FailedAcks :
         /\ i = Len(Log)
         /\ i >= 2 /\ IsSync(Log[i - 1])
         /\ i >= 3 => ~IsSync(Log[i - 2])
         /\ Count("cmd") = Count("sync") - 1
         /\ err = NoResponse
         /\ pc \in {"except", "finally", "done"}
         /\ pc \in {"finally", "done"} => ret = 0 - 1
         /\ pc = "done" => ser = "closed"
         /\ file.open = FALSE

\* the handshake of the second write of a load failed and the session ended
C27_Witness ==
    /\ pc = "done"
    /\ ret = 0 - 1
    /\ ser = "closed"
    /\ FailedAcks = {Len(Log)}
    /\ Cardinality(CmdAt(WRITE_MEM)) = 1
    /\ Len(CallsOf("write_memory")) = 2

\* the (address, data) pairs a file holds for its loader, in file order
RECURSIVE SrecRecords(_)
SrecRecords(lines) ==
    IF lines = <<>> THEN <<>>
    ELSE LET r == srec_line(lines[1])
         IN  IF r.err # Ok THEN <<>>
             ELSE IF r.write
             THEN <<[address |-> r.address, data |-> r.data]>> \o SrecRecords(Tail(lines))
             ELSE SrecRecords(Tail(lines))
RawChunksOf(a0, c) ==
    [j \in 1..((Len(c) + 63) \div 64) |->
        [address |-> a0 + 64 * (j - 1),
         data |-> SubSeq(c, 64 * (j - 1) + 1, Min(64 * j, Len(c)))]]
FileRecords ==
    IF args.main.load # NoArg THEN SrecRecords(Lines(Content(file.name)))
    ELSE IF args.main.loadbin # NoArg THEN WdcRecords(Tail(Content(file.name)))
    ELSE RawChunksOf(args.main.loadraw[1] % 16777216, Content(file.name))

\* C28: when a load (SREC, binary or raw) fails at its k-th write_memory, the
\* k-1 earlier records or chunks have each been transmitted exactly once in
\* file order, no compensating or undoing write is issued for them, no later
\* record is attempted, and the input file is closed.
C28_PartialLoadStays ==
    (file.name # "" /\ printed = <<>> /\ err = NoResponse) =>
        LET W == CallsOf("write_memory")
            k == Len(W)
            F == CmdAt(WRITE_MEM)
        IN  /\ k >= 1
            /\ Calls = W
            /\ k <= Len(FileRecords)
            /\ Written_To(W) = SubSeq(FileRecords, 1, k)
            /\ Cardinality(F) = k - 1
            /\ Cardinality(AnyCmd) = k
            /\ Len(Log) = 7 + 6 * (k - 1) + 2
            /\ \A j \in 1..(k - 1) :
                 LET i == Nth(F, j)
                 IN  /\ i = 7 + 6 * (j - 1) + 3
                     /\ Log[i + 1].bytes = LE3(W[j].address % 16777216)
                     /\ Log[i + 2].bytes = LE2(Len(W[j].data) % 65536)
                     /\ Log[i + 3].tag = "payload"
                     /\ Log[i + 3].bytes = SubSeq(W[j].data, 1, Len(W[j].data) % 65536)
            /\ FailedAcks = {Len(Log)}
            /\ file.open = FALSE
            /\ pc \in {"except", "finally", "done"}

\* the second write of a two-record file failed and the session ended
C28_Witness ==
    /\ file.name = "two_wdc"
    /\ err = NoResponse
    /\ pc = "done"
    /\ Len(CallsOf("write_memory")) = 2
    /\ Cardinality(CmdAt(WRITE_MEM)) = 1
    /\ file.open = FALSE

\* the sum of f over the finite set S of positions
RECURSIVE SumOver(_, _)
SumOver(S, f) ==
    IF S = {} THEN 0
    ELSE LET x == CHOOSE y \in S : TRUE IN f[x] + SumOver(S \ {x}, f)

\* C29: the total reported by load_records equals the number of payload bytes
\* passed to write_memory during that load, for every input file (including
\* unrecognised lines, S1/S2 lines shorter than their byte-count field
\* announces, and byte-count fields smaller than 3 for S1 or 4 for S2); the
\* total is never negative.
C29_RecordsTotal ==
    (args.main.load # NoArg /\ pc = "show") =>
        /\ printed = <<Len(Payloads(CallsOf("write_memory")))>>
        /\ printed[1] >= 0

\* C30: the total reported by load_binary equals the number of payload bytes
\* actually transmitted to the board by its write_memory commands, for every
\* well-formed file, including records whose 3-byte size field exceeds 0xFFFF.
C30_BinaryTotal ==
    (args.main.loadbin # NoArg /\ pc = "show"
        /\ file.name \in {"small_wdc", "two_wdc", "zero_wdc", "big_wdc", "full_wdc"}) =>
        LET P == {i \in 1..Len(Log) : Log[i].op = "write" /\ Log[i].tag = "payload"}
            sent == [i \in P |-> Len(Log[i].bytes)]
        IN  printed = <<SumOver(P, sent)>>

\* what a session was asked to do, and what its outputs show it has done
IsLoad == args.main.load # NoArg \/ args.main.loadbin # NoArg \/ args.main.loadraw # NoArg
IsSave == args.main.save # NoArg \/ args.main.savebin # NoArg
SaveRequest == IF args.main.save # NoArg THEN args.main.save ELSE args.main.savebin
MainDone ==
    /\ IsLoad => printed # <<>>
    /\ IsSave => outfiles # <<>>
\* positions in Calls of the calls made by --show, by --exec, and by the
\* load or save action
ShowCallAt ==
    {i \in 1..Len(Calls) : Calls[i].fn = "read_memory" /\ ~(IsSave /\ i = 1)}
ExecCallAt ==
    IF args.exec = NoArg THEN {}
    ELSE {i \in 1..Len(Calls) :
            /\ Calls[i].fn = "write_memory"
            /\ Calls[i].address = _STATE_ADDRESS
            /\ Calls[i].data = state_block(args.exec[1])}
MainCallAt == (1..Len(Calls)) \ (ShowCallAt \cup ExecCallAt)
ExecCmdAt == CmdAt(EXEC_DEBUG) \cup CmdAt(EXEC_MEM)
TermAt == {i \in 1..Len(Log) : Log[i].op = "terminal"}
ShowDone ==
    args.show # NoArg =>
        /\ ShowCallAt # {}
        /\ Count("data") = Len(CallsOf("read_memory"))
ExecDone == args.exec # NoArg => ExecCmdAt # {}

\* C31: when several actions are requested in one session they run in the
\* fixed order: the single load or save action, then show, then exec, then
\* the terminal; the terminal is opened only after every other requested
\* action has completed without error, and an error in an earlier action
\* prevents all later ones.
C31_ActionOrder ==
    /\ \A i \in MainCallAt : \A j \in ShowCallAt \cup ExecCallAt : i < j
    /\ \A i \in ShowCallAt : \A j \in ExecCallAt : i < j
    /\ \A i \in CmdAt(READ_MEM) : \A j \in ExecCmdAt : i < j
    /\ \A i \in MainCallAt :
         IF IsSave
         THEN /\ i = 1
              /\ Calls[i].fn = "read_memory"
              /\ Calls[i].address = SaveRequest[1]
              /\ Calls[i].size = SaveRequest[2]
         ELSE IsLoad /\ Calls[i].fn = "write_memory"
    /\ Cardinality(ShowCallAt) <= 1
    /\ \A i \in ShowCallAt :
         /\ args.show # NoArg
         /\ Calls[i].address = args.show[1]
         /\ Calls[i].size = args.show[2]
         /\ MainDone
    /\ Cardinality(ExecCallAt) <= 1
    /\ Cardinality(ExecCmdAt) <= 1
    /\ (ExecCallAt # {} \/ ExecCmdAt # {}) =>
         /\ args.exec # NoArg
         /\ MainDone
         /\ ShowDone
    /\ Cardinality(TermAt) <= 1
    /\ \A t \in TermAt :
         /\ t = Len(Log)
         /\ args.term
         /\ err = Ok
         /\ MainDone /\ ShowDone /\ ExecDone
    /\ err # Ok =>
         /\ TermAt = {}
         /\ pc \in {"except", "finally", "done"}
         /\ Count("sync") = Count("ack")
         /\ ~MainDone => ShowCallAt = {} /\ ExecCallAt = {} /\ ExecCmdAt = {}
         /\ ~ShowDone => ExecCallAt = {} /\ ExecCmdAt = {}
    /\ (pc = "done" /\ ret = 1) =>
         /\ MainDone /\ ShowDone /\ ExecDone
         /\ args.term => TermAt # {}

\* a load, a show, an exec and the terminal were requested and all ran
C31_Witness ==
    /\ pc = "done"
    /\ ret = 1
    /\ args.main.load # NoArg
    /\ args.show # NoArg
    /\ args.exec # NoArg
    /\ args.term
    /\ MainCallAt # {} /\ ShowCallAt # {} /\ ExecCallAt # {}
    /\ TermAt = {Len(Log)}

-----------------------------------------------------------------------------
(* The session with every step taken in the end: each call on the link
   returns or times out, each statement of cli() and of the loaders completes. *)
FairSpec == Init /\ [][Next]_vars /\ WF_vars(Next)

LoaderLoops == {"load_records", "load_binary", "load_raw_binary"}

\* what the open file holds, in the unit its loader reads it by: lines for
\* load_records, bytes for the other two
FileLength ==
    IF pc = "load_records"
    THEN IF OnDisk(file.name) THEN Len(DiskLines[file.name])
         ELSE Len(Lines(Content(file.name)))
    ELSE Len(Content(file.name))

\* a pass of a loader's loop that stays in the loop has read on in the file,
\* not past its end, and the loop of load_raw_binary has made one call more
LoopAdvances ==
    (pc \in LoaderLoops /\ pc' = pc) =>
        /\ file'.pos > file.pos
        /\ file'.pos <= FileLength
        /\ pc = "load_raw_binary" =>
             /\ Len(Calls') = Len(Calls) + 1
             /\ Len(Calls') <= (FileLength + 63) \div 64

\* C32: every loader and encoder loop terminates on every finite input, given
\* that each link call returns or times out: save_records ends after
\* ceil(len(data)/32) lines, load_raw_binary after ceil(file size/64)
\* write_memory calls, load_binary and load_records after at most one pass
\* over the file.
C32_LoopsTerminate ==
    /\ [][LoopAdvances]_vars
    /\ [](pc \in LoaderLoops => file.pos <= FileLength)
    /\ []((args.main.save # NoArg /\ pc = "show" /\ outfiles # <<>>) =>
            Len(Lines(outfiles[1].content)) = (Len(data) + 31) \div 32)
    /\ (pc = "load_records") ~> (pc # "load_records")
    /\ (pc = "load_binary") ~> (pc # "load_binary")
    /\ (pc = "load_raw_binary") ~> (pc # "load_raw_binary")
    /\ (pc = "save_records") ~> (pc = "show" /\ outfiles # <<>>)
    /\ (pc = "save_binary") ~> (pc = "show" /\ outfiles # <<>>)

\* load_raw_binary left its loop after three calls for a file of 130 bytes,
\* the whole file read
C32_Witness ==
    /\ args.main.loadraw # NoArg
    /\ printed # <<>>
    /\ file.pos = 128 + RawTail
    /\ file.pos = Len(Content(file.name))
    /\ Len(CallsOf("write_memory")) >= 3
    /\ file.open = FALSE

\* C33: execute_memory on an SXB board is not atomic: when the handshake of
\* its second command (EXEC_DEBUG) fails, the 16-byte state block at 0x7E00
\* has already been overwritten by the first command, execution is not
\* started, and the error is raised with no attempt to restore the block.
C33_ExecNotAtomic ==
    (/\ Returned("execute_memory")
     /\ IsSxb(args.b_type)
     /\ Len(Log) >= 8
     /\ Log[8].bytes # <<204>>) =>
        /\ Log[3].op = "write" /\ Log[3].bytes = <<WRITE_MEM>>
        /\ Log[4].op = "write" /\ Log[4].bytes = LE3(_STATE_ADDRESS)
        /\ Log[5].op = "write" /\ Log[5].bytes = LE2(_STATE_SIZE)
        /\ Log[6].op = "write" /\ Log[6].tag = "payload"
        /\ Log[6].bytes = state_block(args.address)
        /\ Len(Log[6].bytes) = 16
        /\ IsSync(Log[7]) /\ IsAckRead(Log[8])
        /\ FailedAcks = {8}
        /\ Len(Log) = 8
        /\ CmdAt(EXEC_DEBUG) = {} /\ CmdAt(EXEC_MEM) = {}
        /\ CmdAt(READ_MEM) = {}
        /\ CmdAt(WRITE_MEM) = {3}
        /\ Len(Calls) = 1
        /\ err = NoResponse

\* the block for entry 0xFFFF went out, then the second handshake got no byte
C33_Witness ==
    /\ Returned("execute_memory")
    /\ args.b_type = W65C02SXB
    /\ args.address = 65535
    /\ Len(Log) = 8
    /\ Log[6].bytes[7] = 255 /\ Log[6].bytes[8] = 255
    /\ Log[8].bytes = <<>>
    /\ err = NoResponse

\* C34: when the board read of a save operation fails (handshake error), the
\* destination file is neither created nor modified: the file is opened for
\* writing only after read_memory has returned.
C34_FailedSaveNoFile ==
    /\ (IsSave /\ Calls # <<>> /\ err # Ok /\ CmdAt(READ_MEM) = {}) =>
         /\ err = NoResponse
         /\ outfiles = <<>>
         /\ Exists(SaveRequest[3]) <=> SaveRequest[3] \in DOMAIN FileSystem
         /\ Exists(SaveRequest[3]) =>
              Content(SaveRequest[3]) = FileSystem[SaveRequest[3]]
    /\ pc \in {"save_records", "save_binary"} =>
         /\ outfiles = <<>>
         /\ Count("data") = 1
    /\ outfiles # <<>> =>
         /\ IsSave
         /\ Len(outfiles) = 1
         /\ outfiles[1].name = SaveRequest[3]
         /\ Calls[1].fn = "read_memory"
         /\ \E i \in CmdAt(READ_MEM) :
              /\ \A j \in CmdAt(READ_MEM) : i <= j
              /\ Len(Log) >= i + 3
              /\ Log[i + 3].op = "read" /\ Log[i + 3].tag = "data"

\* the read of a save into a file that exists failed at its handshake, and
\* the session ended with the file as it was
C34_Witness ==
    /\ args \in OverArgs
    /\ pc = "done"
    /\ err = NoResponse
    /\ Len(Calls) = 1
    /\ CmdAt(READ_MEM) = {}
    /\ Exists("short_srec")
    /\ Content("short_srec") = SrecShort

====
